---- MODULE Spec2Model ----
(***************************************************************************)
(* One conversation turn of chat-ui: the POST /conversations/:id handler   *)
(* (the response stream's start and cancel callbacks and its update        *)
(* function), textGeneration (title, main and keep-alive producers merged  *)
(* into one stream), generate (the provider loop with its abort check) and *)
(* the OpenAI chat stream adapter that feeds it.                           *)
(*                                                                         *)
(* Text is a sequence of symbols; a symbol is one character, or one        *)
(* reasoning marker taken as a unit.                                       *)
(***************************************************************************)
EXTENDS Integers, Sequences, FiniteSets, TLC

(***************************************************************************)
(* Bounds of the model.                                                    *)
(***************************************************************************)
MaxChunks == 2
MaxKeepAlive == 1

(***************************************************************************)
(* Program constants.                                                      *)
(***************************************************************************)
PadWidth == 16

(***************************************************************************)
(* Text helpers (JavaScript string operations on symbol sequences).        *)
(***************************************************************************)
Min(a, b) == IF a < b THEN a ELSE b
Max(a, b) == IF a > b THEN a ELSE b

\* String.prototype.slice(from, to) with 0-based, clamped indices.
Slice(s, from, to) ==
    LET f == Max(0, Min(from, Len(s)))
        t == Max(f, Min(to, Len(s)))
    IN  SubSeq(s, f + 1, t)

\* String.prototype.slice(from)
SliceFrom(s, from) == Slice(s, from, Len(s))

IsWhitespace(c) == c \in {" ", "\n"}

RECURSIVE TrimEnd(_)
TrimEnd(s) ==
    IF s # <<>> /\ IsWhitespace(s[Len(s)]) THEN TrimEnd(SubSeq(s, 1, Len(s) - 1)) ELSE s

RECURSIVE TrimStart(_)
TrimStart(s) ==
    IF s # <<>> /\ IsWhitespace(s[1]) THEN TrimStart(Tail(s)) ELSE s

Trim(s) == TrimStart(TrimEnd(s))

EndsWith(s, suffix) ==
    Len(suffix) <= Len(s) /\ SubSeq(s, Len(s) - Len(suffix) + 1, Len(s)) = suffix

\* The 0-based positions at which sub occurs in s.
Occurrences(s, sub) ==
    {i \in 0..(Len(s) - Len(sub)) : SubSeq(s, i + 1, i + Len(sub)) = sub}

SetMin(S) == CHOOSE x \in S : \A y \in S : x <= y
SetMax(S) == CHOOSE x \in S : \A y \in S : x >= y

IndexOf(s, sub) == IF Occurrences(s, sub) = {} THEN -1 ELSE SetMin(Occurrences(s, sub))
LastIndexOf(s, sub) == IF Occurrences(s, sub) = {} THEN -1 ELSE SetMax(Occurrences(s, sub))

\* String.prototype.padEnd(width, "\0"); NUL stands for the padding character.
PadEnd(s, width) == s \o [i \in 1..Max(0, width - Len(s)) |-> "NUL"]

\* Optional values: <<>> is null/undefined, <<x>> is the value x.
None == <<>>
Some(x) == <<x>>
(***************************************************************************)
(* MessageUpdate events.  Every event has the same four fields: type, sub  *)
(* (status or subtype), text (token, title, answer text or message) and    *)
(* intr (FinalAnswer.interrupted).                                         *)
(***************************************************************************)
Ev(type, sub, text, intr) == [type |-> type, sub |-> sub, text |-> text, intr |-> intr]

Started == Ev("status", "started", <<>>, FALSE)
KeepAliveEv == Ev("status", "keepAlive", <<>>, FALSE)
ErrorEv(message) == Ev("status", "error", message, FALSE)
TitleEv(title) == Ev("title", "", title, FALSE)
StreamEv(token) == Ev("stream", "", token, FALSE)
ReasoningStreamEv(token) == Ev("reasoning", "stream", token, FALSE)
ReasoningStatusEv(status) == Ev("reasoning", "status", status, FALSE)
FinalAnswerEv(text, interrupted) == Ev("finalAnswer", "", text, interrupted)

\* The 4096 blanks enqueued after a FinalAnswer, as one wire item.
FlushBlock == Ev("flush", "", <<>>, FALSE)

NoOutputMessage == <<"No output was generated. Something went wrong.">>
ProviderMessage == <<"provider error">>
EnqueueMessage == <<"Invalid state: Controller is already closed">>

IsKeepAlive(e) == e.type = "status" /\ e.sub = "keepAlive"
IsErrorStatus(e) == e.type = "status" /\ e.sub = "error"
IsFinishedStatus(e) == e.type = "status" /\ e.sub = "finished"
IsFinalAnswer(e) == e.type = "finalAnswer"
IsStream(e) == e.type = "stream"
IsTitle(e) == e.type = "title"
IsReasoningStream(e) == e.type = "reasoning" /\ e.sub = "stream"
IsTerminal(e) == IsFinalAnswer(e) \/ IsFinishedStatus(e) \/ IsErrorStatus(e)

(***************************************************************************)
(* Model configuration (model.reasoning, model.parameters.stop).           *)
(***************************************************************************)
BeginToken == <<"<think>">>
EndToken == <<"</think>">>
StopTokens == << <<"#">> >>

(***************************************************************************)
(* openAIChatToTextGenerationStream: one output per provider chunk.        *)
(* A chunk is [content, finish]; finish is the chunk's finish_reason       *)
(* ("none" when absent).                                                   *)
(***************************************************************************)
ChatStreamOutput(generatedText, tokenId, chunk) ==
    LET last == chunk.finish \in {"stop", "length"}
        content == chunk.content
    IN  [token |-> [id |-> tokenId,
                    text |-> content,
                    special |-> last],
         generated_text |-> IF content # <<>> /\ last
                            THEN Some(generatedText \o content)
                            ELSE None]

(***************************************************************************)
(* generate: the body of the provider loop for one output.  g is the       *)
(* generator's local state [reasoning, reasoningBuffer]; the result holds  *)
(* the events yielded for this output, in order, the new local state, and  *)
(* check: whether control reaches the abort check after the last yield     *)
(* (FALSE on every path that ends in continue).                            *)
(***************************************************************************)
RECURSIVE StripStops(_, _, _)
StripStops(text, interrupted, stops) ==
    IF stops = <<>> THEN [text |-> text, interrupted |-> interrupted]
    ELSE IF ~EndsWith(text, Head(stops)) THEN StripStops(text, interrupted, Tail(stops))
    ELSE StripStops(Slice(text, 0, Len(text) - Len(Head(stops))), FALSE, Tail(stops))

InStops(text) == \E i \in 1..Len(StopTokens) : StopTokens[i] = text

\* model.reasoning.regex, here the pattern =(.*) : the text after the first "=".
\* The result of regex.exec(buffer)?.[1]: None when the pattern does not match.
RegexMark == <<"=">>

\* Variant: the whole match is taken, not the first capture group.
RegexExec_WholeMatch(buffer) ==
    IF IndexOf(buffer, RegexMark) = -1 THEN None
    ELSE Some(SliceFrom(buffer, IndexOf(buffer, RegexMark)))

RegexExec(buffer) ==
    IF IndexOf(buffer, RegexMark) = -1 THEN None
    ELSE Some(SliceFrom(buffer, IndexOf(buffer, RegexMark) + Len(RegexMark)))

\* Variant: a failed summarization leaves the answer empty.
Summarized_FailsEmpty(text, summary) == IF summary = None THEN <<>> ELSE summary[1]

\* The try block around generateFromDefaultEndpoint: summary is the text the
\* auxiliary call returned, None when it threw.
Summarized(text, summary) == IF summary = None THEN text ELSE summary[1]

\* The FinalAnswer of a completed-text output; summary is the outcome of the
\* auxiliary call of summarize mode.
FinalAnswerWith(rtype, g, output, summary) ==
    LET interrupted0 == ~output.token.special /\ ~InStops(output.token.text)
        stripped == StripStops(TrimEnd(output.generated_text[1]), interrupted0, StopTokens)
        text == stripped.text
        beginIndex == IF BeginToken # <<>> THEN IndexOf(g.reasoningBuffer, BeginToken) ELSE 0
        endIndex == LastIndexOf(g.reasoningBuffer, EndToken)
        finalAnswer ==
            IF rtype = "regex"
            THEN (IF RegexExec(g.reasoningBuffer) # None
                  THEN RegexExec(g.reasoningBuffer)[1] ELSE text)
            ELSE IF rtype = "summarize"
            THEN Summarized(text, summary)
            ELSE IF rtype = "tokens" /\ beginIndex # -1 /\ endIndex # -1
            THEN Slice(text, 0, beginIndex) \o SliceFrom(text, endIndex + Len(EndToken))
            ELSE text
    IN  FinalAnswerEv(finalAnswer, stripped.interrupted)

FinalAnswerOf(rtype, g, output) == FinalAnswerWith(rtype, g, output, None)

DoneStatus == <<"Done in Ns.">>
SummarizingStatus == <<"Summarizing reasoning...">>

\* What the completed-text branch yields.
CompletionEvents(rtype, g, output, summary) ==
    IF rtype = "summarize"
    THEN <<ReasoningStatusEv(SummarizingStatus),
           FinalAnswerWith(rtype, g, output, summary)>>
         \o (IF summary = None THEN <<>> ELSE <<ReasoningStatusEv(DoneStatus)>>)
    ELSE <<FinalAnswerOf(rtype, g, output)>>

GenerateWith(rtype, g, output, summary) ==
    LET text == output.token.text
        buf == g.reasoningBuffer \o text
        endTokenIndex == LastIndexOf(buf, EndToken)
    IN  IF output.generated_text # None /\ output.generated_text[1] # <<>>
        THEN \* text generation completed: FinalAnswer, continue
             [events |-> CompletionEvents(rtype, g, output, summary), check |-> FALSE,
              reasoning |-> g.reasoning, reasoningBuffer |-> g.reasoningBuffer]
        ELSE IF rtype = "tokens" /\ text = BeginToken
        THEN [events |-> <<>>, check |-> FALSE,
              reasoning |-> TRUE, reasoningBuffer |-> buf]
        ELSE IF rtype = "tokens" /\ text = EndToken
        THEN [events |-> <<ReasoningStatusEv(DoneStatus)>>, check |-> FALSE,
              reasoning |-> FALSE, reasoningBuffer |-> buf]
        ELSE IF output.token.special
        THEN \* ignore special tokens
             [events |-> <<>>, check |-> FALSE,
              reasoning |-> g.reasoning, reasoningBuffer |-> g.reasoningBuffer]
        ELSE IF g.reasoning
        THEN IF rtype = "tokens" /\ endTokenIndex # -1
             THEN [events |-> <<ReasoningStreamEv(text),
                                StreamEv(SliceFrom(buf, endTokenIndex + Len(EndToken))),
                                ReasoningStatusEv(DoneStatus)>>,
                   check |-> FALSE,
                   reasoning |-> FALSE,
                   reasoningBuffer |-> Slice(buf, 0, endTokenIndex + Len(EndToken) + 1)]
             ELSE [events |-> <<ReasoningStreamEv(text)>>, check |-> TRUE,
                   reasoning |-> TRUE, reasoningBuffer |-> buf]
        ELSE [events |-> <<StreamEv(text)>>, check |-> TRUE,
              reasoning |-> FALSE, reasoningBuffer |-> g.reasoningBuffer]

\* The loop body in the modes that make no auxiliary call.
GenerateOutput(rtype, g, output) == GenerateWith(rtype, g, output, None)

\* generate's state before the loop: reasoning starts on in regex and summarize
\* mode and in tokens mode with an empty begin marker.
StartsReasoning(rtype) ==
    rtype \in {"regex", "summarize"} \/ (rtype = "tokens" /\ BeginToken = <<>>)
(***************************************************************************)
(* The message tree of a conversation.  A conversation is [messages, next]:*)
(* the message list in insertion order and the id the next message gets    *)
(* (ids are fresh, never reused).  A message is [id, from, ancestors,      *)
(* children]; ancestors and children are lists of ids.                     *)
(***************************************************************************)
NoId == 0

Msg(id, from, ancestors, children) ==
    [id |-> id, from |-> from, ancestors |-> ancestors, children |-> children]

Ids(messages) == {messages[i].id : i \in 1..Len(messages)}

\* conv.messages.find((m) => m.id === id); called on ids that are present.
Find(messages, id) == messages[CHOOSE i \in 1..Len(messages) : messages[i].id = id]

Includes(list, x) == \E i \in 1..Len(list) : list[i] = x

\* A new conversation: the system message alone, the root.
NewConversation == [messages |-> <<Msg(1, "system", <<>>, <<>>)>>, next |-> 2]

\* A conversation after one exchange.
OneExchange ==
    [messages |-> <<Msg(1, "system", <<>>, <<2>>),
                    Msg(2, "user", <<1>>, <<3>>),
                    Msg(3, "assistant", <<1, 2>>, <<>>)>>,
     next |-> 4]

\* The result of a tree operation: the conversation after it, the id it returns
\* and the error it throws ("" when it succeeds).
TreeResult(conv, id, err) == [conv |-> conv, id |-> id, err |-> err]

Register(messages, parentId, childId) ==
    [i \in 1..Len(messages) |->
        IF messages[i].id = parentId
        THEN [messages[i] EXCEPT !.children = Append(@, childId)]
        ELSE messages[i]]

\* Variant: the new message is not entered in its parent's children.
AddChildren_Unregistered(conv, from, parentId) ==
    IF parentId \notin Ids(conv.messages)
    THEN TreeResult(conv, NoId, "ReferenceNotFound")
    ELSE LET parent == Find(conv.messages, parentId)
             new == Msg(conv.next, from, Append(parent.ancestors, parentId), <<>>)
         IN  TreeResult([messages |-> Append(conv.messages, new), next |-> conv.next + 1],
                        new.id, "")

\* Variant: a parent that is absent is not an error; the message is added with
\* the absent id as its only ancestor.
AddChildren_Orphan(conv, from, parentId) ==
    LET ancestors == IF parentId \in Ids(conv.messages)
                     THEN Append(Find(conv.messages, parentId).ancestors, parentId)
                     ELSE <<parentId>>
        new == Msg(conv.next, from, ancestors, <<>>)
    IN  TreeResult([messages |-> Append(Register(conv.messages, parentId, new.id), new),
                    next |-> conv.next + 1],
                   new.id, "")

\* addChildren(conv, message, parentId): appendChild.
AddChildren(conv, from, parentId) ==
    IF parentId \notin Ids(conv.messages)
    THEN TreeResult(conv, NoId, "ReferenceNotFound")
    ELSE LET parent == Find(conv.messages, parentId)
             new == Msg(conv.next, from, Append(parent.ancestors, parentId), <<>>)
         IN  TreeResult([messages |-> Append(Register(conv.messages, parentId, new.id), new),
                         next |-> conv.next + 1],
                        new.id, "")

\* Variant: the new message takes the anchor's place in the parent's children.
AddSibling_TakesPlace(conv, from, siblingId) ==
    IF siblingId \notin Ids(conv.messages)
    THEN TreeResult(conv, NoId, "ReferenceNotFound")
    ELSE LET sibling == Find(conv.messages, siblingId)
         IN  IF sibling.ancestors = <<>>
             THEN TreeResult(conv, NoId, "InvalidOperation")
             ELSE LET parentId == sibling.ancestors[Len(sibling.ancestors)]
                      new == Msg(conv.next, from, sibling.ancestors, <<>>)
                      replaced == [i \in 1..Len(conv.messages) |->
                                     IF conv.messages[i].id = parentId
                                     THEN [conv.messages[i] EXCEPT !.children =
                                             [j \in 1..Len(@) |->
                                                 IF @[j] = siblingId THEN new.id ELSE @[j]]]
                                     ELSE conv.messages[i]]
                  IN  TreeResult([messages |-> Append(replaced, new),
                                  next |-> conv.next + 1],
                                 new.id, "")

\* addSibling(conv, message, siblingId): appendSibling.
AddSibling(conv, from, siblingId) ==
    IF siblingId \notin Ids(conv.messages)
    THEN TreeResult(conv, NoId, "ReferenceNotFound")
    ELSE LET sibling == Find(conv.messages, siblingId)
         IN  IF sibling.ancestors = <<>>
             THEN TreeResult(conv, NoId, "InvalidOperation")
             ELSE LET parentId == sibling.ancestors[Len(sibling.ancestors)]
                      new == Msg(conv.next, from, sibling.ancestors, <<>>)
                  IN  TreeResult(
                         [messages |-> Append(Register(conv.messages, parentId, new.id), new),
                          next |-> conv.next + 1],
                         new.id, "")

\* Variant: the list stops at the parent of the message asked for.
BuildSubtree_WithoutLeaf(conv, id) ==
    IF id \notin Ids(conv.messages)
    THEN [path |-> <<>>, err |-> "ReferenceNotFound"]
    ELSE [path |-> Find(conv.messages, id).ancestors, err |-> ""]

\* buildSubtree(conv, id): the ids of the messages root..leaf, or the error.
BuildSubtree(conv, id) ==
    IF id \notin Ids(conv.messages)
    THEN [path |-> <<>>, err |-> "ReferenceNotFound"]
    ELSE [path |-> Append(Find(conv.messages, id).ancestors, id), err |-> ""]

\* Variant: only the message itself is removed; its descendants stay, with the id
\* taken out of their ancestors.
FilteredMessages_KeepsDescendants(messages, messageId) ==
    LET kept == SelectSeq(messages, LAMBDA m : m.id # messageId)
    IN  [i \in 1..Len(kept) |->
            [kept[i] EXCEPT !.children = SelectSeq(@, LAMBDA c : c # messageId),
                            !.ancestors = SelectSeq(@, LAMBDA a : a # messageId)]]

\* Variant: the id stays in its parent's children.
FilteredMessages_KeepsChildLink(messages, messageId) ==
    SelectSeq(messages, LAMBDA m : m.id # messageId /\ ~Includes(m.ancestors, messageId))

\* DELETE /message/:messageId: the messages kept, the id removed from children lists.
FilteredMessages(messages, messageId) ==
    LET kept == SelectSeq(messages,
                    LAMBDA m : m.id # messageId /\ ~Includes(m.ancestors, messageId))
    IN  [i \in 1..Len(kept) |->
            [kept[i] EXCEPT !.children = SelectSeq(@, LAMBDA c : c # messageId)]]

(***************************************************************************)
(* State of one turn.                                                      *)
(***************************************************************************)
VARIABLES
    abortTime,      \* abortedGenerations record of the conversation: updatedAt, or NoAbort
    rtype,          \* model.reasoning.type, "none" when the model has no reasoning
    hpc,            \* position of the POST handler / the stream's start callback
    mem,            \* in-memory conversation: the message written to (messageToWriteTo)
    convTitle,      \* conv.title
    stored,         \* the conversation document in the database
    initialContent, \* initialMessageContent
    hasError,       \* hasError
    errMsg,         \* message of the exception on its way to the catch block
    cancelled,      \* the client cancelled the response stream
    doneStreaming,  \* doneStreaming
    wire,           \* chunks enqueued on the response stream, in order
    done,           \* textGeneration's AbortController: done.signal.aborted
    mpc,            \* main producer (textGenerationWithoutTitle / generate)
    mainQ,          \* events main yields for the output at hand, not yet delivered
    mainAfter,      \* where main continues once mainQ is delivered
    gen,            \* generate's local state
    adapter,        \* the chat stream adapter's local state
    finishSent,     \* the provider has sent its chunk with a finish reason
    tpc,            \* title producer
    titleText,      \* the title it yields
    kpc,            \* keep-alive producer
    kaCount,        \* keep-alive events yielded
    merged,         \* events delivered by mergeAsyncGenerators, with their producer
    pulledAfterAbort, \* provider outputs generate took while a newer abort record existed
    tree,           \* the conversation's message tree and the last request made on it
    run,             \* generate run by itself on one provider stream: the stream, the position, the events
    aborts   \* the abortedGenerations collection and the stop requests in flight

vars == <<abortTime, rtype, hpc, mem, convTitle, stored, initialContent, hasError,
          errMsg, cancelled, doneStreaming, wire, done, mpc, mainQ, mainAfter, gen,
          adapter, finishSent, tpc, titleText, kpc, kaCount, merged, pulledAfterAbort, tree, run,
          aborts>>

NoAbort == -1
\* No abort record and no stop request.
NoAborts == [records |-> {}, clock |-> 0, requests |-> <<>>, started |-> 0, denied |-> 0,
             last |-> [c1 |-> NoAbort, c2 |-> NoAbort],
             read |-> [conv |-> "", result |-> NoAbort]]
PromptedAt == 1

ReasoningTypes == {"none", "tokens"}
\* Provider chunks: a content delta, a delta without content (the role-only first
\* chunk), the final chunk with its finish reason, with or without content, and,
\* for a reasoning model, the markers as deltas of their own.
Chunk(content, finish) == [content |-> content, finish |-> finish]
Chunks(rt) ==
    {Chunk(<<"a">>, "none"), Chunk(<<>>, "stop")}
    \cup (IF rt = "tokens"
          THEN {Chunk(BeginToken, "none"), Chunk(EndToken, "none")}
          ELSE {Chunk(<<>>, "none"), Chunk(<<"a">>, "stop")})
TitleTexts == {<<"<", "think", ">", "t", " ">>}
NewChat == <<"New Chat">>

\* The message written to, as far as the turn touches it.
NoMessage == [present |-> FALSE, content |-> <<>>, interrupted |-> "unset", updates |-> <<>>]

(***************************************************************************)
(* AbortedGenerations.getAbortTime and the abort check of generate.        *)
(***************************************************************************)
GetAbortTime == abortTime

\* Variant: a record as old as the turn stops it.
AbortRequested_NotOlder == GetAbortTime # NoAbort /\ GetAbortTime >= PromptedAt

\* if (date && date > promptedAt) break
AbortRequested == GetAbortTime # NoAbort /\ GetAbortTime > PromptedAt

(***************************************************************************)
(* update(event) of the stream's start callback.                           *)
(***************************************************************************)
\* A title is a sequence of characters; the word think, in either case, is one
\* symbol of it.
ThinkWords == {"think", "THINK"}

\* The length of the match of /<\/?think>/i at the start of s, 0 when there is none.
TagAt(s) ==
    IF Len(s) >= 3 /\ s[1] = "<" /\ s[2] \in ThinkWords /\ s[3] = ">" THEN 3
    ELSE IF Len(s) >= 4 /\ s[1] = "<" /\ s[2] = "/" /\ s[3] \in ThinkWords /\ s[4] = ">" THEN 4
    ELSE 0

\* title.replace(/<\/?think>/gi, ""): one pass from the left, the search resuming
\* after each match.
RECURSIVE RemoveTags(_)
RemoveTags(s) ==
    IF s = <<>> THEN <<>>
    ELSE IF TagAt(s) > 0 THEN RemoveTags(SubSeq(s, TagAt(s) + 1, Len(s)))
    ELSE <<Head(s)>> \o RemoveTags(Tail(s))

SanitizeTitle(title) == Trim(RemoveTags(title))

\* An empty Stream token returns before anything else happens.
Skipped(e) == IsStream(e) /\ e.text = <<>>

\* Variant: the filter of the updates list lets keep-alive events through.
Recorded_KeepsKeepAlive(e) == ~IsStream(e) /\ ~IsReasoningStream(e)

Recorded(e) == ~IsStream(e) /\ ~IsKeepAlive(e) /\ ~IsReasoningStream(e)

\* Variant: a Stream token replaces the content instead of extending it.
ApplyEvent_TokenReplaces(m, init, e) ==
    LET m1 == IF IsStream(e) THEN [m EXCEPT !.content = e.text]
              ELSE IF IsFinalAnswer(e)
                   THEN [m EXCEPT !.interrupted = IF e.intr THEN "true" ELSE "false",
                                  !.content = init \o e.text]
              ELSE m
    IN  IF Recorded(e) THEN [m1 EXCEPT !.updates = Append(@, e)] ELSE m1

ApplyEvent(m, init, e) ==
    LET m1 == IF IsStream(e) THEN [m EXCEPT !.content = @ \o e.text]
              ELSE IF IsFinalAnswer(e)
                   THEN [m EXCEPT !.interrupted = IF e.intr THEN "true" ELSE "false",
                                  !.content = init \o e.text]
              ELSE m
    IN  IF Recorded(e) THEN [m1 EXCEPT !.updates = Append(@, e)] ELSE m1

WireForm(e) == IF IsStream(e) THEN [e EXCEPT !.text = PadEnd(e.text, PadWidth)] ELSE e

Enqueued(e) == IF IsFinalAnswer(e) THEN <<WireForm(e), FlushBlock>> ELSE <<WireForm(e)>>

\* controller.enqueue on a stream the client has cancelled throws.
UpdateThrows(e) == ~Skipped(e) /\ cancelled

Update(e) ==
    IF Skipped(e)
    THEN UNCHANGED <<mem, convTitle, stored, wire>>
    ELSE /\ mem' = ApplyEvent(mem, initialContent, e)
         /\ convTitle' = IF IsTitle(e) THEN SanitizeTitle(e.text) ELSE convTitle
         /\ stored' = IF IsTitle(e) THEN [stored EXCEPT !.title = convTitle'] ELSE stored
         /\ wire' = IF cancelled THEN wire ELSE wire \o Enqueued(e)

\* Variant: the write stores the title and leaves the stored messages as they were.
Persist_TitleOnly == stored' = [stored EXCEPT !.title = convTitle']

Persist == stored' = [messages |-> mem', title |-> convTitle']
(***************************************************************************)
(* Initial state: the handler has taken promptedAt; the request either     *)
(* continues an existing assistant message or will create a new one.       *)
(***************************************************************************)
TurnInit ==
    /\ abortTime = NoAbort
    /\ hpc = "idle"
    /\ mem \in {NoMessage, [NoMessage EXCEPT !.present = TRUE, !.content = <<"c">>]}
    /\ convTitle = NewChat
    /\ stored = [messages |-> mem, title |-> convTitle]
    /\ initialContent = <<>>
    /\ hasError = FALSE
    /\ errMsg = <<>>
    /\ cancelled = FALSE
    /\ doneStreaming = FALSE
    /\ wire = <<>>
    /\ done = FALSE
    /\ mpc = "idle"
    /\ mainQ = <<>>
    /\ mainAfter = "prep"
    /\ gen = [reasoning |-> FALSE, reasoningBuffer |-> <<>>]
    /\ adapter = [generatedText |-> <<>>, tokenId |-> 0]
    /\ finishSent = FALSE
    /\ tpc = "idle"
    /\ titleText = <<>>
    /\ kpc = "idle"
    /\ kaCount = 0
    /\ merged = <<>>
    /\ pulledAfterAbort = 0

\* generate is not run by itself.
NoRun == [chunks |-> <<>>, pos |-> 0, events |-> <<>>, over |-> FALSE, aux |-> "none"]

\* No request has been made on the tree yet.
NoRequest == [op |-> "none", kind |-> "", arg |-> NoId, err |-> "", path |-> <<>>,
              writeTo |-> NoId, started |-> FALSE]

TreeOf(conv) ==
    [stored |-> conv.messages, mem |-> conv.messages, next |-> conv.next, n |-> 0,
     last |-> NoRequest]

\* The outcome of the tree mutation of POST /:id: the conversation in memory, the
\* message to write to, the ids of messagesForPrompt, and the error thrown.
Outcome(conv, writeTo, path, err) ==
    [conv |-> conv, writeTo |-> writeTo, path |-> path, err |-> err]

\* The two checks after the mutation.
Checked(conv, writeTo, path) ==
    IF writeTo \notin Ids(conv.messages) THEN Outcome(conv, NoId, <<>>, "500 Failed to create message")
    ELSE IF path = <<>> THEN Outcome(conv, NoId, <<>>, "500 Failed to create prompt")
    ELSE Outcome(conv, writeTo, path, "")

\* messagesForPrompt = buildSubtree(conv, id), with the last message popped or not.
WithSubtree(conv, writeTo, id, pop) ==
    LET sub == BuildSubtree(conv, id)
    IN  IF sub.err # "" THEN Outcome(conv, NoId, <<>>, sub.err)
        ELSE Checked(conv, writeTo,
                     IF pop THEN SubSeq(sub.path, 1, Len(sub.path) - 1) ELSE sub.path)

\* A user message and the assistant message to write to under it.
WithAssistant(user) ==
    IF user.err # "" THEN Outcome(user.conv, NoId, <<>>, user.err)
    ELSE LET assistant == AddChildren(user.conv, "assistant", user.id)
         IN  IF assistant.err # "" THEN Outcome(assistant.conv, NoId, <<>>, assistant.err)
             ELSE WithSubtree(assistant.conv, assistant.id, user.id, FALSE)

\* Variant: the continue branch does not look at the children of its target.
HasChildren_Never(conv, messageId) == FALSE

\* (message?.children?.length ?? 0) > 0
HasChildren(conv, messageId) ==
    messageId \in Ids(conv.messages) /\ Find(conv.messages, messageId).children # <<>>

TreeMutation(conv, kind, messageId, newPrompt) ==
    IF kind = "continue" /\ messageId # NoId
    THEN IF HasChildren(conv, messageId)
         THEN Outcome(conv, NoId, <<>>, "400 Can only continue the last message")
         ELSE WithSubtree(conv, messageId, messageId, FALSE)
    ELSE IF kind = "retry" /\ messageId # NoId
    THEN IF messageId \notin Ids(conv.messages)
         THEN Outcome(conv, NoId, <<>>, "404 Message not found")
         ELSE IF Find(conv.messages, messageId).from = "user" /\ newPrompt
         THEN WithAssistant(AddSibling(conv, "user", messageId))
         ELSE IF Find(conv.messages, messageId).from = "assistant"
         THEN LET sibling == AddSibling(conv, "assistant", messageId)
              IN  IF sibling.err # "" THEN Outcome(sibling.conv, NoId, <<>>, sibling.err)
                  ELSE WithSubtree(sibling.conv, sibling.id, messageId, TRUE)
         ELSE Checked(conv, NoId, <<>>)
    ELSE WithAssistant(AddChildren(conv, "user", messageId))

Loaded == [messages |-> tree.stored, next |-> tree.next]

\* The tree after POST /:id has run its mutation and, when it succeeds, the
\* pre-turn write.
Posted(kind, messageId, newPrompt) ==
    LET r == TreeMutation(Loaded, kind, messageId, newPrompt)
    IN  [stored |-> IF r.err = "" THEN r.conv.messages ELSE tree.stored,
         mem |-> r.conv.messages,
         next |-> r.conv.next,
         n |-> tree.n + 1,
         last |-> [op |-> "post", kind |-> kind, arg |-> messageId,
                   err |-> r.err, path |-> r.path, writeTo |-> r.writeTo,
                   started |-> r.err = ""]]

\* The conversation a turn starts from: a new one when the turn creates its
\* assistant message, one exchange when it continues the last message.
TurnConversation(present) == IF present THEN OneExchange ELSE NewConversation

\* The request of the turn: a new message under the last message, or the
\* continuation of the last message.
TurnKind(present) == IF present THEN "continue" ELSE "new"
TurnTarget(present) == Len(TurnConversation(present).messages)

Init ==
    /\ TurnInit
    /\ aborts = NoAborts
    /\ rtype \in ReasoningTypes
    /\ tree = TreeOf(TurnConversation(mem.present))
    /\ run = NoRun

handlerVars == <<mem, convTitle, stored, initialContent, hasError, errMsg, doneStreaming, wire>>
mainVars == <<mpc, mainQ, mainAfter, gen, adapter, finishSent, pulledAfterAbort>>
titleVars == <<tpc, titleText>>
kaVars == <<kpc, kaCount>>
\* What no step of the turn changes, the message tree included.
envVars == <<abortTime, rtype, tree, run, aborts>>

(***************************************************************************)
(* The stop-generating request.                                            *)
(***************************************************************************)
\* POST /:id/stop-generating while the turn is generating: the record's updatedAt
\* becomes the time of the request, which is the handler's promptedAt (same
\* millisecond) or later.
TouchTimes == {PromptedAt, PromptedAt + 1}

Touch ==
    /\ hpc \in {"idle", "start", "loop"}
    /\ \E t \in TouchTimes :
          /\ t > abortTime
          /\ abortTime' = t
    /\ UNCHANGED <<rtype, tree, run, aborts, hpc, cancelled, done, merged>>
    /\ UNCHANGED <<handlerVars, mainVars, titleVars, kaVars>>

(***************************************************************************)
(* POST handler up to the construction of the response stream.             *)
(***************************************************************************)
PostMessage ==
    /\ hpc = "idle"
    /\ mem' = [mem EXCEPT !.present = TRUE]
    /\ convTitle' = convTitle
    /\ Persist
    /\ hpc' = "start"
    /\ tree' = Posted(TurnKind(mem.present), TurnTarget(mem.present), FALSE)
    /\ UNCHANGED <<initialContent, hasError, errMsg, doneStreaming, wire>>
    /\ UNCHANGED <<abortTime, rtype, run, aborts>>
    /\ UNCHANGED <<cancelled, done, merged, mainVars, titleVars, kaVars>>

(***************************************************************************)
(* textGeneration: what each producer yields first.                        *)
(***************************************************************************)
\* Variant: main yields a token before it announces the start.
MainFirst_TokenBeforeStarted == <<StreamEv(<<"a">>), Started>>

MainFirst == <<Started>>

\* start(): title write, then the context is built and textGeneration is iterated,
\* or getEndpoint throws.
StreamStart ==
    /\ hpc = "start"
    /\ stored' = [stored EXCEPT !.title = convTitle]
    /\ hasError' = FALSE
    /\ initialContent' = mem.content
    /\ \/ /\ hpc' = "loop"
          /\ errMsg' = errMsg
          /\ mpc' = "ready"
          /\ mainQ' = MainFirst
          /\ mainAfter' = "prep"
          /\ tpc' = "run"
          /\ kpc' = "ready"
          /\ kaCount' = 1
       \/ /\ hpc' = "catch"
          /\ errMsg' = ProviderMessage
          /\ UNCHANGED <<mpc, mainQ, mainAfter, tpc, kpc, kaCount>>
    /\ UNCHANGED <<mem, convTitle, doneStreaming, wire, titleText>>
    /\ UNCHANGED <<envVars, cancelled, done, merged, gen, adapter, finishSent, pulledAfterAbort>>

(***************************************************************************)
(* Main producer: textGenerationWithoutTitle and generate.                 *)
(***************************************************************************)
\* Where main stands once resumed after its last yield for an output: at the abort
\* check (break, then done.abort()), or back at the head of the loop.
Resume(after) ==
    IF after = "check" THEN (IF AbortRequested THEN "aborted" ELSE "await") ELSE after

\* generate has returned: the provider stream ended, or the abort check broke the loop.
Returned(pc) == pc \in {"ended", "aborted"}

\* After Started: preprocessing, then generate up to the endpoint call.
MainPrepare ==
    /\ hpc = "loop" /\ mpc = "prep"
    /\ \/ /\ gen' = [gen EXCEPT !.reasoning = StartsReasoning(rtype)]
          /\ IF StartsReasoning(rtype)
             THEN /\ mainQ' = <<ReasoningStatusEv(<<"Started reasoning...">>)>>
                  /\ mpc' = "ready"
                  /\ mainAfter' = "await"
             ELSE /\ mpc' = "await"
                  /\ UNCHANGED <<mainQ, mainAfter>>
       \/ /\ mpc' = "threw"
          /\ UNCHANGED <<gen, mainQ, mainAfter>>
    /\ UNCHANGED <<adapter, finishSent, pulledAfterAbort>>
    /\ UNCHANGED <<envVars, hpc, cancelled, done, merged, handlerVars, titleVars, kaVars>>

\* The provider sends a chunk; the adapter turns it into an output; generate runs
\* the loop body on it.
MainOutput ==
    /\ hpc = "loop" /\ mpc = "await"
    /\ adapter.tokenId < MaxChunks
    /\ \E chunk \in Chunks(rtype) :
          /\ chunk.finish # "none" => ~finishSent
          /\ LET output == ChatStreamOutput(adapter.generatedText, adapter.tokenId, chunk)
                 r == GenerateOutput(rtype, gen, output)
             IN  /\ adapter' = [generatedText |-> adapter.generatedText \o chunk.content,
                                tokenId |-> adapter.tokenId + 1]
                 /\ finishSent' = (finishSent \/ chunk.finish # "none")
                 /\ gen' = [reasoning |-> r.reasoning, reasoningBuffer |-> r.reasoningBuffer]
                 /\ mainQ' = r.events
                 /\ mainAfter' = IF r.check THEN "check" ELSE "await"
                 /\ mpc' = IF r.events # <<>> THEN "ready" ELSE Resume(mainAfter')
                 /\ done' = (done \/ Returned(mpc'))
    /\ pulledAfterAbort' = IF AbortRequested THEN pulledAfterAbort + 1 ELSE pulledAfterAbort
    /\ UNCHANGED <<envVars, hpc, cancelled, merged, handlerVars, titleVars, kaVars>>

\* The provider stream ends: generate returns and done.abort() runs.
MainStreamEnd ==
    /\ hpc = "loop" /\ mpc = "await"
    /\ mpc' = "ended"
    /\ done' = TRUE
    /\ UNCHANGED <<mainQ, mainAfter, gen, adapter, finishSent, pulledAfterAbort>>
    /\ UNCHANGED <<envVars, hpc, cancelled, merged, handlerVars, titleVars, kaVars>>

\* The provider stream throws: the exception leaves generate; done.abort() is skipped.
MainStreamThrow ==
    /\ hpc = "loop" /\ mpc = "await"
    /\ mpc' = "threw"
    /\ UNCHANGED <<mainQ, mainAfter, gen, adapter, finishSent, pulledAfterAbort>>
    /\ UNCHANGED <<envVars, hpc, cancelled, done, merged, handlerVars, titleVars, kaVars>>

(***************************************************************************)
(* Title producer (generateTitleForConversation): at most one Title event; *)
(* a failure of the title call is swallowed.                               *)
(***************************************************************************)
TitleEnd ==
    /\ hpc = "loop" /\ tpc = "run"
    /\ tpc' = "ended"
    /\ UNCHANGED <<titleText>>
    /\ UNCHANGED <<envVars, hpc, cancelled, done, merged, handlerVars, mainVars, kaVars>>

(***************************************************************************)
(* Keep-alive producer: the timer fires; the loop tests done.aborted, then *)
(* yields.                                                                 *)
(***************************************************************************)
KeepAliveWake ==
    /\ hpc = "loop" /\ kpc = "sleep"
    /\ IF done
       THEN kpc' = "ended" /\ kaCount' = kaCount
       ELSE kaCount < MaxKeepAlive /\ kpc' = "ready" /\ kaCount' = kaCount + 1
    /\ UNCHANGED <<envVars, hpc, cancelled, done, merged, handlerVars, mainVars, titleVars>>
(***************************************************************************)
(* mergeAsyncGenerators and the for-await loop of start(): one ready       *)
(* result of one producer is drained and update(event) runs on it before   *)
(* the next is taken.  Main's first result is drained before any other, and *)
(* an exception of main surfaces before any further result is drained.     *)
(***************************************************************************)
\* An entry of the merged stream: the producer, the event, and whether main had
\* already ended when the event was delivered.
\* Variant: the merged stream hands over a producer's event a second time in place
\* of the event at hand once it has delivered one of that producer.
Delivery_Repeats(p, e) ==
    LET earlier == {i \in 1..Len(merged) : merged[i].p = p}
    IN  [p |-> p,
         e |-> IF earlier = {} THEN e ELSE merged[SetMin(earlier)].e,
         afterMain |-> mpc \in {"ended", "aborted", "threw"}]

Delivery(p, e) == [p |-> p, e |-> e, afterMain |-> mpc \in {"ended", "aborted", "threw"}]

Drained(p) == \E i \in 1..Len(merged) : merged[i].p = p

MayDrain(p) == p = "main" \/ Drained("main")

\* The loop body: update(event); an exception thrown by it goes to the catch block.
LoopBody(p, e) ==
    /\ Update(e)
    /\ merged' = Append(merged, Delivery(p, e))
    /\ IF UpdateThrows(e)
       THEN hpc' = "catch" /\ errMsg' = EnqueueMessage
       ELSE hpc' = "loop" /\ errMsg' = errMsg
    /\ UNCHANGED <<initialContent, hasError, doneStreaming>>
    /\ UNCHANGED <<envVars, cancelled, done>>

DeliverMain ==
    /\ hpc = "loop" /\ mpc = "ready" /\ MayDrain("main")
    /\ merged' = Append(merged, Delivery("main", Head(mainQ)))
    /\ Update(Head(mainQ))
    /\ mainQ' = Tail(mainQ)
    /\ IF UpdateThrows(Head(mainQ))
       THEN /\ hpc' = "catch" /\ errMsg' = EnqueueMessage
            /\ UNCHANGED <<mpc, done>>
       ELSE /\ hpc' = "loop" /\ errMsg' = errMsg
            /\ mpc' = IF mainQ' # <<>> THEN "ready" ELSE Resume(mainAfter)
            /\ done' = (done \/ Returned(mpc'))
    /\ UNCHANGED <<initialContent, hasError, doneStreaming>>
    /\ UNCHANGED <<envVars, cancelled>>
    /\ UNCHANGED <<mainAfter, gen, adapter, finishSent, pulledAfterAbort, titleVars, kaVars>>

\* The title call completes, the Title event is yielded and drained, and the
\* title producer returns.
DeliverTitle ==
    /\ hpc = "loop" /\ tpc = "run" /\ MayDrain("title") /\ mpc # "threw"
    /\ \E t \in TitleTexts :
          /\ titleText' = t
          /\ LoopBody("title", TitleEv(t))
    /\ tpc' = "ended"
    /\ UNCHANGED <<mainVars, kaVars>>

DeliverKeepAlive ==
    /\ hpc = "loop" /\ kpc = "ready" /\ MayDrain("keepAlive") /\ mpc # "threw"
    /\ LoopBody("keepAlive", KeepAliveEv)
    /\ kpc' = "sleep"
    /\ UNCHANGED <<kaCount, mainVars, titleVars>>

\* Main's exception surfaces in the merged stream and ends the loop.
MergeThrow ==
    /\ hpc = "loop" /\ mpc = "threw"
    /\ hpc' = "catch"
    /\ errMsg' = ProviderMessage
    /\ UNCHANGED <<mem, convTitle, stored, initialContent, hasError, doneStreaming, wire>>
    /\ UNCHANGED <<envVars, cancelled, done, merged, mainVars, titleVars, kaVars>>

\* Every producer has returned: the merged stream ends.
MergeEnd ==
    /\ hpc = "loop" /\ Returned(mpc) /\ tpc = "ended" /\ kpc = "ended"
    /\ hpc' = "finally"
    /\ UNCHANGED <<envVars, cancelled, done, merged, handlerVars, mainVars, titleVars, kaVars>>

(***************************************************************************)
(* catch, finally, the final write and close of start(); cancel().         *)
(***************************************************************************)
HandlerCatch ==
    /\ hpc = "catch"
    /\ hasError' = TRUE
    /\ Update(ErrorEv(errMsg))
    /\ hpc' = IF UpdateThrows(ErrorEv(errMsg)) THEN "escaped" ELSE "finally"
    /\ UNCHANGED <<initialContent, errMsg, doneStreaming>>
    /\ UNCHANGED <<envVars, cancelled, done, merged, mainVars, titleVars, kaVars>>

\* Variants of the test in the finally block: without the hasError flag, and
\* without the comparison of the content.
NoOutput_IgnoresHasError == mem.content = initialContent

NoOutput_IgnoresContent == ~hasError

NoOutput == ~hasError /\ mem.content = initialContent

HandlerFinally ==
    /\ hpc = "finally"
    /\ IF NoOutput
       THEN /\ Update(ErrorEv(NoOutputMessage))
            /\ hpc' = IF UpdateThrows(ErrorEv(NoOutputMessage)) THEN "escaped" ELSE "final"
       ELSE /\ hpc' = "final"
            /\ UNCHANGED <<mem, convTitle, stored, wire>>
    /\ UNCHANGED <<initialContent, hasError, errMsg, doneStreaming>>
    /\ UNCHANGED <<envVars, cancelled, done, merged, mainVars, titleVars, kaVars>>

FinalPersist ==
    /\ hpc = "final"
    /\ UNCHANGED <<mem, convTitle>>
    /\ Persist
    /\ hpc' = "closing"
    /\ UNCHANGED <<initialContent, hasError, errMsg, doneStreaming, wire>>
    /\ UNCHANGED <<envVars, cancelled, done, merged, mainVars, titleVars, kaVars>>

\* doneStreaming = true; controller.close(), which throws on a cancelled stream.
Close ==
    /\ hpc = "closing"
    /\ doneStreaming' = TRUE
    /\ hpc' = IF cancelled THEN "escaped" ELSE "closed"
    /\ UNCHANGED <<mem, convTitle, stored, initialContent, hasError, errMsg, wire>>
    /\ UNCHANGED <<envVars, cancelled, done, merged, mainVars, titleVars, kaVars>>

StreamOpen == hpc \in {"start", "loop", "catch", "finally", "final", "closing"}

\* The client cancels the response stream: cancel() runs; start() is not stopped.
ClientCancel ==
    /\ StreamOpen /\ ~cancelled
    /\ cancelled' = TRUE
    /\ UNCHANGED <<mem, convTitle>>
    /\ IF doneStreaming THEN UNCHANGED stored ELSE Persist
    /\ UNCHANGED <<initialContent, hasError, errMsg, doneStreaming, wire>>
    /\ UNCHANGED <<envVars, hpc, done, merged, mainVars, titleVars, kaVars>>

Next ==
    \/ Touch
    \/ PostMessage
    \/ StreamStart
    \/ MainPrepare
    \/ MainOutput
    \/ MainStreamEnd
    \/ MainStreamThrow
    \/ TitleEnd
    \/ KeepAliveWake
    \/ DeliverMain
    \/ DeliverTitle
    \/ DeliverKeepAlive
    \/ MergeThrow
    \/ MergeEnd
    \/ HandlerCatch
    \/ HandlerFinally
    \/ FinalPersist
    \/ Close
    \/ ClientCancel

Spec == Init /\ [][Next]_vars

(***************************************************************************)
(* Vocabulary of the properties.                                           *)
(***************************************************************************)
WireIndices == 1..Len(wire)
MergedIndices == 1..Len(merged)

TerminalsOnWire == {i \in WireIndices : IsTerminal(wire[i])}
ErrorsOnWire == {i \in WireIndices : IsErrorStatus(wire[i])}
NoOutputOnWire == {i \in ErrorsOnWire : wire[i].text = NoOutputMessage}
FinalAnswersOnWire == {i \in WireIndices : IsFinalAnswer(wire[i])}

MainOver == mpc \in {"ended", "aborted", "threw"}
ProviderFailed == hasError /\ errMsg = ProviderMessage
AbortObserved == mpc = "aborted"
FinalAnswerDelivered == \E i \in MergedIndices : IsFinalAnswer(merged[i].e)

\* The concatenation of the Stream tokens among the first n delivered events.
RECURSIVE StreamTokens(_)
StreamTokens(n) ==
    IF n = 0 THEN <<>>
    ELSE StreamTokens(n - 1) \o (IF IsStream(merged[n].e) THEN merged[n].e.text ELSE <<>>)

Database == [messages |-> mem, title |-> convTitle]

C2_TerminalBeforeClose == hpc = "closed" => TerminalsOnWire # {}

(***************************************************************************)
(* C3.  A turn that completes without abort has written exactly one        *)
(* terminal event (FinalAnswer or Status{error}) to the wire; in           *)
(* particular no Status{error} follows a FinalAnswer.                      *)
(***************************************************************************)
C3_ExactlyOneTerminal ==
    (hpc = "closed" /\ ~AbortObserved) => Cardinality(TerminalsOnWire) = 1

(***************************************************************************)
(* C4.  A turn in which generate observed an abort record newer than       *)
(* promptedAt (the registry was touched after the start of the turn and    *)
(* before the provider stream ended) ends with a FinalAnswer whose         *)
(* interrupted is true on the wire, and the message is marked interrupted  *)
(* in memory and in the database.                                          *)
(***************************************************************************)
C4_AbortInterrupts ==
    (hpc = "closed" /\ AbortObserved) =>
        /\ \E i \in FinalAnswersOnWire : wire[i].intr
        /\ mem.interrupted = "true"
        /\ stored.messages.interrupted = "true"

(***************************************************************************)
(* C5.  Once an abort record newer than promptedAt exists, generate takes  *)
(* at most the output at hand from the provider: the abort is observed     *)
(* after every output, of whatever kind.                                   *)
(***************************************************************************)
C5_AtMostCurrentOutput == pulledAfterAbort <= 1

(***************************************************************************)
(* C6.  After the main producer has ended, no keep-alive and no Title      *)
(* event is delivered by the merged stream.                                *)
(***************************************************************************)
C6_NothingAfterMain == \A i \in MergedIndices : ~merged[i].afterMain

(***************************************************************************)
(* C7.  As stated: whenever the endpoint call or the provider stream has   *)
(* thrown and the catch block has run, no exception has escaped start(),   *)
(* exactly one Status{error} is on the wire and it carries the exception's *)
(* message, and once the final write has run the database holds the        *)
(* in-memory conversation.                                                 *)
(***************************************************************************)
ErrorHandled ==
    /\ hpc # "escaped"
    /\ hpc \in {"finally", "final", "closing", "closed"} =>
          /\ Cardinality(ErrorsOnWire) = 1
          /\ \A i \in ErrorsOnWire : wire[i].text = ProviderMessage
    /\ hpc \in {"closing", "closed"} => stored = Database

FinallyCompleted ==
    hpc \in {"final", "closing", "closed"} \/ (hpc = "escaped" /\ doneStreaming)

TurnOver == hpc \in {"closed", "escaped"}

PairStoredBeforeWire == wire # <<>> => stored.messages.present
TitleStored == hpc # "idle" /\ hpc # "start" => stored.title = convTitle

MergedEvents == [i \in MergedIndices |-> merged[i].e]
EventsOf(p) ==
    LET own == SelectSeq(merged, LAMBDA d : d.p = p)
    IN  [i \in 1..Len(own) |-> own[i].e]
IsPrefix(s, t) == Len(s) <= Len(t) /\ SubSeq(t, 1, Len(s)) = s
OnWire(P(_)) == SelectSeq(wire, P)

IsContent(e) ==
    \/ (IsStream(e) /\ e.text # <<>>)
    \/ IsReasoningStream(e)
    \/ IsFinalAnswer(e)
ProviderSymbols == SelectSeq(adapter.generatedText, LAMBDA c : c = "a")
MainEvents == EventsOf("main") \o (IF hpc = "idle" \/ hpc = "start" THEN <<>> ELSE mainQ)

\* The events of the loop body of generate over the symbols, one output each.
RECURSIVE Replayed(_, _)
Replayed(g, symbols) ==
    IF symbols = <<>> THEN <<>>
    ELSE LET r == GenerateOutput("tokens", g,
                     ChatStreamOutput(<<>>, 0, Chunk(<<Head(symbols)>>, "none")))
         IN  r.events \o Replayed([reasoning |-> r.reasoning,
                                   reasoningBuffer |-> r.reasoningBuffer],
                                  Tail(symbols))

MaxRequests == 3
AbsentId == -1

PostKinds == {"new", "continue", "retry"}

\* POST /:id: the tree mutation, then the pre-turn write and the response stream.
PostTurn ==
    /\ tree.n < MaxRequests
    /\ \E kind \in PostKinds, messageId \in Ids(tree.stored) \cup {NoId, AbsentId},
          newPrompt \in BOOLEAN :
          tree' = Posted(kind, messageId, newPrompt)
    /\ UNCHANGED <<abortTime, rtype, run, aborts, hpc, cancelled, done, merged>>
    /\ UNCHANGED <<handlerVars, mainVars, titleVars, kaVars>>

\* GET /message/:messageId/prompt
GetPrompt ==
    /\ tree.n < MaxRequests
    /\ \E messageId \in Ids(tree.stored) \cup {AbsentId} :
          LET sub == IF messageId \notin Ids(tree.stored)
                     THEN [path |-> <<>>, err |-> "404 Message not found"]
                     ELSE BuildSubtree(Loaded, messageId)
          IN  tree' = [tree EXCEPT !.mem = tree.stored,
                                   !.n = @ + 1,
                                   !.last = [op |-> "prompt", kind |-> "", arg |-> messageId,
                                             err |-> sub.err, path |-> sub.path,
                                             writeTo |-> NoId, started |-> FALSE]]
    /\ UNCHANGED <<abortTime, rtype, run, aborts, hpc, cancelled, done, merged>>
    /\ UNCHANGED <<handlerVars, mainVars, titleVars, kaVars>>

\* DELETE /message/:messageId
DeleteMessage ==
    /\ tree.n < MaxRequests
    /\ \E messageId \in Ids(tree.stored) \cup {AbsentId} :
          LET found == messageId \in Ids(tree.stored)
              filtered == IF found THEN FilteredMessages(tree.stored, messageId) ELSE tree.stored
          IN  tree' = [tree EXCEPT !.stored = filtered,
                                   !.mem = filtered,
                                   !.n = @ + 1,
                                   !.last = [op |-> "delete", kind |-> "", arg |-> messageId,
                                             err |-> IF found THEN "" ELSE "Message not found",
                                             path |-> <<>>, writeTo |-> NoId,
                                             started |-> FALSE]]
    /\ UNCHANGED <<abortTime, rtype, run, aborts, hpc, cancelled, done, merged>>
    /\ UNCHANGED <<handlerVars, mainVars, titleVars, kaVars>>

TreeInit ==
    /\ TurnInit
    /\ aborts = NoAborts
    /\ rtype = "none"
    /\ mem = NoMessage
    /\ tree \in {TreeOf(NewConversation), TreeOf(OneExchange)}
    /\ run = NoRun

TreeNext ==
    \/ PostTurn
    \/ GetPrompt
    \/ DeleteMessage

TreeSpec == TreeInit /\ [][TreeNext]_vars

(***************************************************************************)
(* Vocabulary of the tree properties, over the stored messages.            *)
(***************************************************************************)
Stored == tree.stored
StoredIds == Ids(Stored)
Roots == {id \in StoredIds : Find(Stored, id).ancestors = <<>>}
ParentId(m) == m.ancestors[Len(m.ancestors)]

\* How many children lists of the messages hold id, counted with repetition.
ListedIn(messages, id) ==
    {<<i, j>> \in (1..Len(messages)) \X (1..(2 * MaxRequests + 3)) :
        j <= Len(messages[i].children) /\ messages[i].children[j] = id}

\* The ids reached from the ids in S by following children lists, in at most k rounds.
RECURSIVE ReachedFrom(_, _, _)
ReachedFrom(messages, S, k) ==
    LET step == S \cup {c \in Ids(messages) :
                          \E id \in S \cap Ids(messages) : Includes(Find(messages, id).children, c)}
    IN  IF k = 0 \/ step = S THEN S ELSE ReachedFrom(messages, step, k - 1)

Descendants(messages, id) == ReachedFrom(messages, {id}, Len(messages)) \ {id}

\* The path from the root to id, found by going up from child to the message
\* that lists it, in at most k steps.
RECURSIVE PathByChildren(_, _, _)
PathByChildren(messages, id, k) ==
    LET parents == {p \in Ids(messages) : Includes(Find(messages, p).children, id)}
    IN  IF k = 0 \/ parents = {} THEN <<id>>
        ELSE Append(PathByChildren(messages, CHOOSE p \in parents : TRUE, k - 1), id)

\* A step that handles one request.
Request == tree'.n = tree.n + 1

(***************************************************************************)
(* C13.  In a conversation that holds messages there is exactly one        *)
(* message with empty ancestors, and every other message's ancestors are   *)
(* its parent's ancestors followed by the parent's id, its parent is       *)
(* there, and the parent's children list it, once.                         *)
(***************************************************************************)
C13_AncestorsAndChildren ==
    Stored # <<>> =>
        /\ Cardinality(Roots) = 1
        /\ \A i \in 1..Len(Stored) :
              LET m == Stored[i]
              IN  m.ancestors # <<>> =>
                     /\ ParentId(m) \in StoredIds
                     /\ m.ancestors = Append(Find(Stored, ParentId(m)).ancestors, ParentId(m))
                     /\ Cardinality({ij \in ListedIn(Stored, m.id) :
                                        Stored[ij[1]].id = ParentId(m)}) = 1

C13_Witness ==
    /\ tree.last.op = "post" /\ tree.last.kind = "retry" /\ tree.last.err = ""
    /\ Len(Stored) >= 5
    /\ \E i \in 1..Len(Stored) : Len(Stored[i].children) >= 2

(***************************************************************************)
(* C14.  For every message in the tree buildSubtree gives the path from    *)
(* the root to it along the children lists, root first and the message     *)
(* last; a prompt request stores nothing, and two prompt requests for the  *)
(* same message, one after the other, give the same list.                  *)
(***************************************************************************)
C14_SubtreeIsPath ==
    /\ [](\A id \in StoredIds :
            /\ BuildSubtree(Loaded, id).err = ""
            /\ BuildSubtree(Loaded, id).path = PathByChildren(Stored, id, Len(Stored)))
    /\ [][(Request /\ tree'.last.op = "prompt") =>
            /\ tree'.stored = tree.stored
            /\ tree'.last.arg \in StoredIds =>
                  tree'.last.path = PathByChildren(Stored, tree'.last.arg, Len(Stored))
            /\ (tree.last.op = "prompt" /\ tree.last.arg = tree'.last.arg) =>
                  tree'.last.path = tree.last.path]_vars

C14_Witness ==
    /\ tree.last.op = "prompt"
    /\ tree.last.err = ""
    /\ Len(tree.last.path) >= 3
    /\ tree.last.path[1] \in Roots
    /\ tree.n >= 2

RetryDone == Request /\ tree'.last.op = "post" /\ tree'.last.kind = "retry" /\ tree'.last.err = ""

C16_RetryAddsSibling ==
    [][RetryDone =>
        LET anchor == Find(tree.stored, tree'.last.arg)
            new    == Find(tree'.stored, tree.next)
        IN  /\ tree'.last.arg \in Ids(tree.stored)
            /\ tree.next \in Ids(tree'.stored) \ Ids(tree.stored)
            /\ new.ancestors = anchor.ancestors
            /\ new.from = anchor.from
            /\ new.children = IF anchor.from = "user" THEN <<tree.next + 1>> ELSE <<>>
            /\ Ids(tree'.stored) \ Ids(tree.stored) =
                  IF anchor.from = "user" THEN {tree.next, tree.next + 1} ELSE {tree.next}
            /\ anchor.from = "user" =>
                  /\ Find(tree'.stored, tree.next + 1).ancestors = Append(new.ancestors, new.id)
                  /\ Find(tree'.stored, tree.next + 1).from = "assistant"
            /\ \A i \in 1..Len(tree.stored) :
                  LET m == tree.stored[i]
                  IN  /\ m.id \in Ids(tree'.stored)
                      /\ Find(tree'.stored, m.id) =
                            IF m.id = ParentId(anchor)
                            THEN [m EXCEPT !.children = Append(@, tree.next)]
                            ELSE m
            /\ Descendants(tree'.stored, anchor.id) = Descendants(tree.stored, anchor.id)
            /\ tree.next \notin Descendants(tree'.stored, anchor.id)]_vars

\* A retry of a message that has a child went through.
C16_Witness ==
    /\ tree.last.op = "post" /\ tree.last.kind = "retry" /\ tree.last.err = ""
    /\ tree.last.arg \in StoredIds
    /\ Find(Stored, tree.last.arg).children # <<>>
    /\ Find(Stored, tree.last.arg).from = "user"

(***************************************************************************)
(* C17.  A new-message request under a parent that is not in the tree      *)
(* (addChildren) and a continue request for a message that is not in the   *)
(* tree (buildSubtree) fail with ReferenceNotFound; a request that fails   *)
(* so leaves the stored messages and the messages in memory as they were,  *)
(* names no message to write to, starts no turn and puts nothing on the    *)
(* wire.                                                                   *)
(***************************************************************************)
PostDone == Request /\ tree'.last.op = "post"

C17_ReferenceNotFound ==
    [][PostDone =>
        /\ (tree'.last.kind = "new" /\ tree'.last.arg \notin Ids(tree.stored)) =>
              tree'.last.err = "ReferenceNotFound"
        /\ (tree'.last.kind = "continue" /\ tree'.last.arg = AbsentId) =>
              tree'.last.err = "ReferenceNotFound"
        /\ tree'.last.err = "ReferenceNotFound" =>
              /\ tree'.stored = tree.stored
              /\ tree'.mem = tree.stored
              /\ tree'.next = tree.next
              /\ tree'.last.writeTo = NoId
              /\ tree'.last.path = <<>>
              /\ ~tree'.last.started
              /\ wire' = <<>>
              /\ hpc' = hpc]_vars

\* After an exchange was added, a new message under an absent parent was refused.
C17_Witness ==
    /\ tree.last.op = "post" /\ tree.last.kind = "new"
    /\ tree.last.arg = AbsentId
    /\ tree.last.err = "ReferenceNotFound"
    /\ tree.n >= 2
    /\ Len(Stored) >= 3
    /\ tree.mem = Stored

(***************************************************************************)
(* C18.  A continue request for a stored message that has a child is       *)
(* refused (400, "Can only continue the last message"): the stored         *)
(* messages and the messages in memory are as they were, no message to     *)
(* write to is named, no turn starts and nothing is on the wire.  A        *)
(* continue request for a stored message without children succeeds, writes *)
(* to that same message with the path root..message as its prompt, and     *)
(* adds no message.                                                        *)
(***************************************************************************)
C18_ContinueOnlyLeaf ==
    [][(PostDone /\ tree'.last.kind = "continue" /\ tree'.last.arg \in Ids(tree.stored)) =>
        /\ tree'.stored = tree.stored
        /\ tree'.mem = tree.stored
        /\ tree'.next = tree.next
        /\ wire' = <<>>
        /\ IF Find(tree.stored, tree'.last.arg).children # <<>>
           THEN /\ tree'.last.err = "400 Can only continue the last message"
                /\ tree'.last.writeTo = NoId
                /\ tree'.last.path = <<>>
                /\ ~tree'.last.started
           ELSE /\ tree'.last.err = ""
                /\ tree'.last.writeTo = tree'.last.arg
                /\ tree'.last.path =
                      PathByChildren(tree.stored, tree'.last.arg, Len(tree.stored))
                /\ tree'.last.started]_vars

\* A continue of a message that had got a second child by a retry was refused.
C18_Witness ==
    /\ tree.last.op = "post" /\ tree.last.kind = "continue"
    /\ tree.last.err = "400 Can only continue the last message"
    /\ tree.last.arg \in StoredIds
    /\ Len(Find(Stored, tree.last.arg).children) >= 2
    /\ ~tree.last.started

(***************************************************************************)
(* C19.  DELETE /message/:messageId.                                       *)
(***************************************************************************)
DeleteDone == Request /\ tree'.last.op = "delete" /\ tree'.last.err = ""

MaxTokens == 2

SeqsUpTo(S, n) == UNION {[1..k -> S] : k \in 0..n}

TokenChunks(tokens) == [i \in 1..Len(tokens) |-> Chunk(<<tokens[i]>>, "none")]

\* The chunks of the stream: completion "bare" is a last chunk without content,
\* "token" puts the finish reason on the chunk of the last token.
ProviderStream(before, reasoning, after, completion) ==
    LET tokens == before \o BeginToken \o reasoning \o EndToken \o after
        chunks == TokenChunks(tokens)
    IN  IF completion = "bare"
        THEN Append(chunks, Chunk(<<>>, "stop"))
        ELSE [chunks EXCEPT ![Len(chunks)].finish = "stop"]

ProviderStreams ==
    {ProviderStream(before, reasoning, after, completion) :
        before \in SeqsUpTo({"a"}, MaxTokens),
        reasoning \in SeqsUpTo({"b", "c"}, MaxTokens),
        after \in SeqsUpTo({"d"}, MaxTokens),
        completion \in {"bare", "token"}}

GenInit ==
    /\ TurnInit
    /\ aborts = NoAborts
    /\ rtype = "tokens"
    /\ mem = NoMessage
    /\ tree = TreeOf(NewConversation)
    /\ \E chunks \in ProviderStreams : run = [NoRun EXCEPT !.chunks = chunks]

\* One provider chunk through the adapter and the loop body of generate.
GenOutput ==
    /\ ~run.over
    /\ run.pos < Len(run.chunks)
    /\ LET chunk == run.chunks[run.pos + 1]
           output == ChatStreamOutput(adapter.generatedText, adapter.tokenId, chunk)
           r == GenerateOutput(rtype, gen, output)
       IN  /\ adapter' = [generatedText |-> adapter.generatedText \o chunk.content,
                          tokenId |-> adapter.tokenId + 1]
           /\ finishSent' = (finishSent \/ chunk.finish # "none")
           /\ gen' = [reasoning |-> r.reasoning, reasoningBuffer |-> r.reasoningBuffer]
           /\ run' = [run EXCEPT !.pos = @ + 1, !.events = @ \o r.events]
    /\ UNCHANGED <<mpc, mainQ, mainAfter, pulledAfterAbort>>
    /\ UNCHANGED <<abortTime, rtype, tree, aborts, hpc, cancelled, done, merged>>
    /\ UNCHANGED <<handlerVars, titleVars, kaVars>>

\* The provider stream is exhausted: generate returns.
GenReturn ==
    /\ ~run.over
    /\ run.pos = Len(run.chunks)
    /\ run' = [run EXCEPT !.over = TRUE]
    /\ UNCHANGED <<abortTime, rtype, tree, aborts, hpc, cancelled, done, merged>>
    /\ UNCHANGED <<handlerVars, mainVars, titleVars, kaVars>>

GenNext ==
    \/ GenOutput
    \/ GenReturn

GenSpec == GenInit /\ [][GenNext]_vars

(***************************************************************************)
(* Vocabulary of the run: the tokens the provider sent, those between the  *)
(* markers and those outside, and the texts the events carry.              *)
(***************************************************************************)
RECURSIVE Concat(_)
Concat(ss) == IF ss = <<>> THEN <<>> ELSE Head(ss) \o Concat(Tail(ss))

SentTokens == Concat([i \in 1..Len(run.chunks) |-> run.chunks[i].content])
BetweenMarkers ==
    Slice(SentTokens, IndexOf(SentTokens, BeginToken) + Len(BeginToken),
          IndexOf(SentTokens, EndToken))
OutsideMarkers ==
    Slice(SentTokens, 0, IndexOf(SentTokens, BeginToken))
        \o SliceFrom(SentTokens, IndexOf(SentTokens, EndToken) + Len(EndToken))

TextOf(P(_)) ==
    LET es == SelectSeq(run.events, P) IN Concat([i \in 1..Len(es) |-> es[i].text])
FinalAnswers == SelectSeq(run.events, IsFinalAnswer)

(***************************************************************************)
(* C20.  When generate has returned, the Reasoning.Stream events carry     *)
(* exactly the tokens between the markers, the Stream events carry exactly *)
(* the tokens outside them, and the text of the FinalAnswer is the tokens  *)
(* outside the markers, in the order sent.                                 *)
(***************************************************************************)
C20_TokensModeAnswer ==
    run.over =>
        /\ TextOf(IsReasoningStream) = BetweenMarkers
        /\ TextOf(IsStream) = OutsideMarkers
        /\ \A i \in 1..Len(FinalAnswers) : FinalAnswers[i].text = OutsideMarkers

(***************************************************************************)
(* generate in tokens mode on any chunking of the provider output: up to   *)
(* MaxBlocks reasoning blocks, each with answer text before it, the begin  *)
(* marker, reasoning text and the end marker, then trailing answer text;   *)
(* every text is one symbol or absent, and a symbol names its place, so    *)
(* that a symbol found in an event tells where it came from.  The provider *)
(* cuts the stream into chunks of up to MaxChunk symbols.                  *)
(***************************************************************************)
MaxBlocks == 2
MaxChunk == 2

AnswerSymbols == <<"a1", "a2", "a3", "a4", "a5">>
ReasoningSymbols == <<"r1", "r2", "r3", "r4">>

Opt(symbol) == {<<>>, <<symbol>>}

RECURSIVE BlocksOf(_)
BlocksOf(n) ==
    IF n = 0 THEN {<<>>}
    ELSE {s \o a \o BeginToken \o r \o EndToken :
             s \in BlocksOf(n - 1), a \in Opt(AnswerSymbols[n]), r \in Opt(ReasoningSymbols[n])}

SymbolStreams ==
    UNION {{s \o a : s \in BlocksOf(n), a \in Opt(AnswerSymbols[n + 1])} : n \in 1..MaxBlocks}

\* Every way to cut the symbols into chunks of 1..MaxChunk symbols.
RECURSIVE Chunkings(_)
Chunkings(s) ==
    IF s = <<>> THEN {<<>>}
    ELSE UNION {{<<Chunk(SubSeq(s, 1, k), "none")>> \o rest :
                    rest \in Chunkings(SubSeq(s, k + 1, Len(s)))} :
                k \in 1..Min(MaxChunk, Len(s))}

\* The completion: a last chunk without content, or the finish reason on the
\* last chunk of content.
Completed(chunks, completion) ==
    IF completion = "bare"
    THEN Append(chunks, Chunk(<<>>, "stop"))
    ELSE [chunks EXCEPT ![Len(chunks)].finish = "stop"]

ChunkedStreams(streams) ==
    {Completed(chunks, completion) :
        chunks \in UNION {Chunkings(s) : s \in streams},
        completion \in {"bare", "token"}}

ChunkInit ==
    /\ TurnInit
    /\ aborts = NoAborts
    /\ rtype = "tokens"
    /\ mem = NoMessage
    /\ tree = TreeOf(NewConversation)
    /\ \E chunks \in ChunkedStreams(SymbolStreams) : run = [NoRun EXCEPT !.chunks = chunks]

ChunkSpec == ChunkInit /\ [][GenNext]_vars

(***************************************************************************)
(* Vocabulary of a chunked run.                                            *)
(***************************************************************************)
SymbolsOf(text) == {text[i] : i \in 1..Len(text)}
Markers == SymbolsOf(BeginToken) \cup SymbolsOf(EndToken)

\* messageToWriteTo.reasoning: the Reasoning.Stream tokens, appended.
StoredReasoning == TextOf(IsReasoningStream)

\* The events the step yields.
NewEvents == SubSeq(run'.events, Len(run.events) + 1, Len(run'.events))
\* The chunk the step handles, when it handles one.
ChunkStep == run'.pos = run.pos + 1
ThisChunk == run.chunks[run.pos + 1]
TokenPerChunk == \A i \in 1..Len(run.chunks) : Len(run.chunks[i].content) <= 1
IsDone(e) == e = ReasoningStatusEv(DoneStatus)

(***************************************************************************)
(* C21.  When generate has returned: no symbol carried by a                *)
(* Reasoning.Stream event is carried by a Stream event or by the           *)
(* FinalAnswer text, and neither marker is in the FinalAnswer text or in   *)
(* the stored reasoning.                                                   *)
(***************************************************************************)
C21_ReasoningNotDuplicated ==
    run.over =>
        LET reasoned == SymbolsOf(StoredReasoning)
            streamed == SymbolsOf(TextOf(IsStream))
            answered == SymbolsOf(TextOf(IsFinalAnswer))
        IN  /\ reasoned \cap streamed = {}
            /\ reasoned \cap answered = {}
            /\ Markers \cap answered = {}
            /\ Markers \cap reasoned = {}

(***************************************************************************)
(* C22.  When every chunk is one token and generate has returned: every    *)
(* reasoning token the provider sent between a begin marker and its end    *)
(* marker is carried by a Reasoning.Stream event and by no Stream event,   *)
(* in every block of the stream.                                           *)
(***************************************************************************)
C22_BlocksAreReasoning ==
    (run.over /\ TokenPerChunk) =>
        \A k \in 1..MaxBlocks :
            ReasoningSymbols[k] \in SymbolsOf(SentTokens) =>
                /\ ReasoningSymbols[k] \in SymbolsOf(StoredReasoning)
                /\ ReasoningSymbols[k] \notin SymbolsOf(TextOf(IsStream))

(***************************************************************************)
(* C23.  A chunk that holds the end marker, alone or with trailing text,   *)
(* and is not the completion, yields exactly one Reasoning.Status          *)
(* completion marker and no Stream event before it; after the last end     *)
(* marker of the stream every chunk that is not special yields one Stream  *)
(* event with its text and nothing else.                                   *)
(***************************************************************************)
C23_DoneThenStream ==
    [][ChunkStep =>
        /\ (EndToken[1] \in SymbolsOf(ThisChunk.content) /\ ThisChunk.finish = "none") =>
              /\ Len(SelectSeq(NewEvents, IsDone)) = 1
              /\ \A i, j \in 1..Len(NewEvents) :
                    (IsStream(NewEvents[i]) /\ IsDone(NewEvents[j])) => j < i
        /\ (/\ ThisChunk.finish = "none"
            /\ \E i \in 1..run.pos : EndToken[1] \in SymbolsOf(run.chunks[i].content)
            /\ \A i \in (run.pos + 1)..Len(run.chunks) :
                  Markers \cap SymbolsOf(run.chunks[i].content) = {}) =>
              NewEvents = <<StreamEv(ThisChunk.content)>>]_vars

(***************************************************************************)
(* generate in regex and summarize mode: reasoning is on from the start,   *)
(* every token is buffered and streamed as reasoning, and the answer is    *)
(* made at completion.  The provider sends up to MaxModeTokens tokens, one *)
(* per chunk, and the completion as in ProviderStream.                     *)
(***************************************************************************)
MaxModeTokens == 3

ModeSymbols == {"x", "=", "#", " "}
SummaryText == <<"s">>

ModeStreams ==
    {Completed(TokenChunks(tokens), completion) :
        tokens \in SeqsUpTo(ModeSymbols, MaxModeTokens) \ {<<>>},
        completion \in {"bare", "token"}}

ModeInit ==
    /\ TurnInit
    /\ aborts = NoAborts
    /\ rtype \in {"regex", "summarize"}
    /\ mem = NoMessage
    /\ tree = TreeOf(NewConversation)
    /\ \E chunks \in ModeStreams : run = [NoRun EXCEPT !.chunks = chunks]

\* generate before the loop: reasoning mode and its status.
ModePrepare ==
    /\ ~run.over /\ run.pos = 0 /\ run.events = <<>>
    /\ StartsReasoning(rtype)
    /\ gen' = [gen EXCEPT !.reasoning = TRUE]
    /\ run' = [run EXCEPT !.events = <<ReasoningStatusEv(<<"Started reasoning...">>)>>]
    /\ UNCHANGED <<mpc, mainQ, mainAfter, adapter, finishSent, pulledAfterAbort>>
    /\ UNCHANGED <<abortTime, rtype, tree, aborts, hpc, cancelled, done, merged>>
    /\ UNCHANGED <<handlerVars, titleVars, kaVars>>

\* One provider chunk through the adapter and the loop body; in summarize mode
\* the completed text makes the auxiliary call, which returns a summary or throws.
ModeOutput ==
    /\ ~run.over /\ run.events # <<>>
    /\ run.pos < Len(run.chunks)
    /\ LET chunk == run.chunks[run.pos + 1]
           output == ChatStreamOutput(adapter.generatedText, adapter.tokenId, chunk)
           called == rtype = "summarize" /\ output.generated_text # None
       IN  \E summary \in (IF called THEN {None, Some(SummaryText)} ELSE {None}) :
             LET r == GenerateWith(rtype, gen, output, summary)
             IN  /\ adapter' = [generatedText |-> adapter.generatedText \o chunk.content,
                                tokenId |-> adapter.tokenId + 1]
                 /\ finishSent' = (finishSent \/ chunk.finish # "none")
                 /\ gen' = [reasoning |-> r.reasoning,
                            reasoningBuffer |-> r.reasoningBuffer]
                 /\ run' = [run EXCEPT !.pos = @ + 1, !.events = @ \o r.events,
                                       !.aux = IF ~called THEN "none"
                                               ELSE IF summary = None THEN "failed"
                                               ELSE "ok"]
    /\ UNCHANGED <<mpc, mainQ, mainAfter, pulledAfterAbort>>
    /\ UNCHANGED <<abortTime, rtype, tree, aborts, hpc, cancelled, done, merged>>
    /\ UNCHANGED <<handlerVars, titleVars, kaVars>>

ModeNext ==
    \/ ModePrepare
    \/ ModeOutput
    \/ GenReturn

ModeSpec == ModeInit /\ [][ModeNext]_vars

(***************************************************************************)
(* Vocabulary of a run in regex or summarize mode.                         *)
(***************************************************************************)
\* The step handles the output that completes the text.
Completing ==
    /\ ChunkStep
    /\ ThisChunk.finish # "none" /\ ThisChunk.content # <<>>
\* The raw generated text: trimmed at the end, a stop token at the end removed.
RawText == StripStops(TrimEnd(SentTokens), FALSE, StopTokens).text
\* The text after the first "=" of a text that has one.
AfterMark(text) ==
    SubSeq(text, SetMin({i \in 1..Len(text) : text[i] = "="}) + 1, Len(text))

MaxProvider == 2

ToolEv(sub, uuid, text) ==
    [type |-> "tool", sub |-> sub, text |-> text, intr |-> FALSE, uuid |-> uuid]
IsTool(e) == e.type = "tool"

UUIDs == {"u1", "u2"}

\* MCP_SERVERS: no server, a server whose tool list is empty, a server with a tool.
McpConfigs == {"off", "empty", "on"}
Servers == {"srv"}

\* Argument texts: none, a JSON value, and a text JSON.parse throws on.
ArgTexts == {"", "[1]", "{"}
EmptyObject == <<>>
JsonParse(raw) == IF raw = "[1]" THEN Some(<<1>>) ELSE None

\* parseArgs of generate: the empty object for a blank or an unparsable text.
ParseArgs(raw) ==
    IF raw = "" THEN Some(EmptyObject)
    ELSE IF JsonParse(raw) = None THEN Some(EmptyObject)
    ELSE JsonParse(raw)

\* The argument parsing of the endpoint's hooks: a blank is the empty object,
\* an unparsable text is an error.
EndpointArgs(raw) == IF raw = "" THEN Some(EmptyObject) ELSE JsonParse(raw)

\* The mapping from function names to (server, tool) pairs.
Mapping(name) ==
    IF name = "srv_tool" THEN Some([server |-> "srv", tool |-> "tool"]) ELSE None

\* The first tool call of a completion; the empty name is a completion without one.
NoCall == [name |-> "", arguments |-> ""]
ToolCalls == [name : {"srv_tool", "other"}, arguments : ArgTexts]
IsCall(call) == call.name # ""
Completions ==
    {[ok |-> FALSE, call |-> NoCall], [ok |-> TRUE, call |-> NoCall]}
    \cup {[ok |-> TRUE, call |-> c] : c \in ToolCalls}

\* The last user message against the inline command pattern.
PlainMessage == [match |-> FALSE, server |-> "", raw |-> ""]
Messages ==
    {PlainMessage} \cup [match : {TRUE}, server : {"srv", "other"}, raw : ArgTexts]

UnknownFunction == <<"Unknown MCP function">>
UnknownServer == <<"Unknown MCP server">>
InvalidArgs == <<"Invalid JSON args">>
McpError(msg) == <<"MCP error">> \o msg
ToolOutput == <<"out">>
ToolFailure == <<"tool failed">>
SynthesisText == <<"syn">>
SynthesisFailure == <<"generation failed">>
Outcomes == {"ok", "throws"}

\* The provider's answer to the chat completion, as streamed chunks.
ProviderAnswers ==
    {Completed(TokenChunks(tokens), completion) :
        tokens \in SeqsUpTo({"a", "b"}, MaxProvider) \ {<<>>},
        completion \in {"bare", "token"}}

RECURSIVE ContentOf(_)
ContentOf(chunks) ==
    IF chunks = <<>> THEN <<>> ELSE Head(chunks).content \o ContentOf(Tail(chunks))

ToolRun(mcp, message, provider) ==
    [chunks |-> <<>>, pos |-> 0, events |-> <<>>, over |-> FALSE, aux |-> "none",
     at |-> "generate", mcp |-> mcp, message |-> message, provider |-> provider,
     completion |-> "none", call |-> NoCall, endpointCall |-> NoCall,
     invocation |-> "none", synthesis |-> "none", single |-> FALSE,
     modelCalls |-> <<>>, invocations |-> <<>>]

ToolInit ==
    /\ TurnInit
    /\ aborts = NoAborts
    /\ rtype = "none"
    /\ mem = NoMessage
    /\ tree = TreeOf(NewConversation)
    /\ \E mcp \in McpConfigs, message \in Messages, provider \in ProviderAnswers :
         run = ToolRun(mcp, message, provider)

\* generate, the tool-schema completion: made when a server has tools; a
\* failure is logged and generate goes on to the endpoint.
ToolSchemaCompletion ==
    /\ run.at = "generate"
    /\ IF run.mcp = "on"
       THEN \E completion \in Completions :
              run' = [run EXCEPT
                        !.modelCalls = Append(@, "tools"),
                        !.completion = IF ~completion.ok THEN "throws"
                                       ELSE IF IsCall(completion.call) THEN "call"
                                       ELSE "content",
                        !.call = completion.call,
                        !.at = IF completion.ok /\ IsCall(completion.call)
                               THEN "toolPath" ELSE "endpoint"]
       ELSE run' = [run EXCEPT !.at = "endpoint"]
    /\ UNCHANGED <<abortTime, rtype, tree, aborts, hpc, cancelled, done, merged>>
    /\ UNCHANGED <<handlerVars, mainVars, titleVars, kaVars>>

\* The follow-up completion that words the answer from the tool's output: one
\* completion, which returns its text or throws.
Synthesized(outcome) == IF outcome = "ok" THEN Some(SynthesisText) ELSE None

\* What generate yields for a tool call.
ToolPathEvents(call, uuid, invocation, synthesis) ==
    LET head == <<ToolEv("call", uuid, <<call.name>>), ToolEv("eta", uuid, <<>>)>>
    IN  IF Mapping(call.name) = None
        THEN head \o <<ToolEv("error", uuid, UnknownFunction),
                       FinalAnswerEv(UnknownFunction, FALSE)>>
        ELSE IF invocation = "throws"
        THEN head \o <<ToolEv("error", uuid, ToolFailure),
                       FinalAnswerEv(McpError(ToolFailure), FALSE)>>
        ELSE IF Synthesized(synthesis) = None
        THEN head \o <<ToolEv("result", uuid, ToolOutput),
                       ToolEv("error", uuid, SynthesisFailure),
                       FinalAnswerEv(McpError(SynthesisFailure), FALSE)>>
        ELSE head \o <<ToolEv("result", uuid, ToolOutput),
                       FinalAnswerEv(Synthesized(synthesis)[1], FALSE)>>

\* Where generate is after the tool path: it returns.
AfterToolPath_FallsThrough == "endpoint"
AfterToolPath == "done"

\* generate, the tool path: the call is announced, the tool invoked with the
\* parsed arguments, and the answer synthesized by a follow-up completion.
ToolPath ==
    /\ run.at = "toolPath"
    /\ \E uuid \in UUIDs, invocation \in Outcomes, synthesis \in Outcomes :
         LET registered == Mapping(run.call.name) # None
             invoked == registered
             synthesized == registered /\ invocation = "ok"
         IN  /\ invoked \/ invocation = "ok"
             /\ synthesized \/ synthesis = "ok"
             /\ run' = [run EXCEPT
                          !.events = @ \o ToolPathEvents(run.call, uuid, invocation,
                                                         synthesis),
                          !.invocation = IF invoked THEN invocation ELSE "none",
                          !.synthesis = IF synthesized THEN synthesis ELSE "none",
                          !.invocations =
                              IF invoked
                              THEN Append(@, [by |-> "generate",
                                              args |-> ParseArgs(run.call.arguments)[1]])
                              ELSE @,
                          !.modelCalls = IF synthesized THEN Append(@, "synthesis")
                                         ELSE @,
                          !.at = AfterToolPath,
                          !.over = (AfterToolPath = "done")]
    /\ UNCHANGED <<abortTime, rtype, tree, aborts, hpc, cancelled, done, merged>>
    /\ UNCHANGED <<handlerVars, mainVars, titleVars, kaVars>>

\* A non-streaming completion as the endpoint's stream: one output whose token
\* text and generated_text are the whole content.
SingleOutput(content) ==
    [token |-> [id |-> 0, text |-> content, special |-> FALSE],
     generated_text |-> Some(content)]

\* The content a hook of the endpoint answers with, for a call it resolved.
HookContent(resolved, args, invocation, unresolved) ==
    IF ~resolved THEN unresolved
    ELSE IF args = None THEN InvalidArgs
    ELSE IF invocation = "throws" THEN McpError(ToolFailure)
    ELSE ToolOutput

\* The endpoint, the inline command hook: with a server configured, a last user
\* message that matches the pattern is answered by the tool, without the model.
EndpointInline ==
    /\ run.at = "endpoint"
    /\ IF run.mcp # "off" /\ run.message.match
       THEN \E invocation \in Outcomes :
              LET known == run.message.server \in Servers
                  args == EndpointArgs(run.message.raw)
                  invoked == known /\ args # None
              IN  /\ invoked \/ invocation = "ok"
                  /\ run' = [run EXCEPT
                               !.chunks = <<Chunk(HookContent(known, args, invocation,
                                                              UnknownServer), "stop")>>,
                               !.single = TRUE,
                               !.invocation = IF invoked THEN invocation ELSE "none",
                               !.invocations =
                                   IF invoked
                                   THEN Append(@, [by |-> "inline", args |-> args[1]])
                                   ELSE @,
                               !.at = "loop"]
       ELSE run' = [run EXCEPT !.at = "endpointTools"]
    /\ UNCHANGED <<abortTime, rtype, tree, aborts, hpc, cancelled, done, merged>>
    /\ UNCHANGED <<handlerVars, mainVars, titleVars, kaVars>>

\* The endpoint, the model-driven hook: a tool-schema completion of its own; a
\* call is carried out and its output is the answer, and without a call the
\* content of that completion is the answer.  A failure falls through.
EndpointToolCall ==
    /\ run.at = "endpointTools"
    /\ IF run.mcp = "on"
       THEN \E completion \in Completions, invocation \in Outcomes :
              LET call == completion.call
                  called == completion.ok /\ IsCall(call)
                  registered == Mapping(call.name) # None
                  args == EndpointArgs(call.arguments)
                  invoked == called /\ registered /\ args # None
                  content == IF called
                             THEN HookContent(registered, args, invocation,
                                              UnknownFunction)
                             ELSE ContentOf(run.provider)
              IN  /\ invoked \/ invocation = "ok"
                  /\ run' = [run EXCEPT
                               !.modelCalls = Append(@, "endpointTools"),
                               !.endpointCall = call,
                               !.chunks = IF completion.ok
                                          THEN <<Chunk(content, "stop")>> ELSE @,
                               !.single = completion.ok,
                               !.invocation = IF invoked THEN invocation ELSE @,
                               !.invocations =
                                   IF invoked
                                   THEN Append(@, [by |-> "endpoint", args |-> args[1]])
                                   ELSE @,
                               !.at = IF completion.ok THEN "loop" ELSE "endpointStream"]
       ELSE run' = [run EXCEPT !.at = "endpointStream"]
    /\ UNCHANGED <<abortTime, rtype, tree, aborts, hpc, cancelled, done, merged>>
    /\ UNCHANGED <<handlerVars, mainVars, titleVars, kaVars>>

\* The endpoint, the chat completion: the provider's answer is streamed.
EndpointStream ==
    /\ run.at = "endpointStream"
    /\ run' = [run EXCEPT !.modelCalls = Append(@, "chat"),
                          !.chunks = run.provider,
                          !.single = FALSE,
                          !.at = "loop"]
    /\ UNCHANGED <<abortTime, rtype, tree, aborts, hpc, cancelled, done, merged>>
    /\ UNCHANGED <<handlerVars, mainVars, titleVars, kaVars>>

\* One output of the endpoint's stream through the loop body of generate.
LoopOutput ==
    /\ run.at = "loop"
    /\ run.pos < Len(run.chunks)
    /\ LET chunk == run.chunks[run.pos + 1]
           output == IF run.single
                     THEN SingleOutput(chunk.content)
                     ELSE ChatStreamOutput(adapter.generatedText, adapter.tokenId, chunk)
           r == GenerateOutput(rtype, gen, output)
       IN  /\ adapter' = [generatedText |-> adapter.generatedText \o chunk.content,
                          tokenId |-> adapter.tokenId + 1]
           /\ finishSent' = (finishSent \/ chunk.finish # "none")
           /\ gen' = [reasoning |-> r.reasoning, reasoningBuffer |-> r.reasoningBuffer]
           /\ run' = [run EXCEPT !.pos = @ + 1, !.events = @ \o r.events]
    /\ UNCHANGED <<mpc, mainQ, mainAfter, pulledAfterAbort>>
    /\ UNCHANGED <<abortTime, rtype, tree, aborts, hpc, cancelled, done, merged>>
    /\ UNCHANGED <<handlerVars, titleVars, kaVars>>

\* The endpoint's stream is exhausted: generate returns.
LoopReturn ==
    /\ run.at = "loop"
    /\ run.pos = Len(run.chunks)
    /\ run' = [run EXCEPT !.at = "done", !.over = TRUE]
    /\ UNCHANGED <<abortTime, rtype, tree, aborts, hpc, cancelled, done, merged>>
    /\ UNCHANGED <<handlerVars, mainVars, titleVars, kaVars>>

ToolNext ==
    \/ ToolSchemaCompletion
    \/ ToolPath
    \/ EndpointInline
    \/ EndpointToolCall
    \/ EndpointStream
    \/ LoopOutput
    \/ LoopReturn

ToolSpec == ToolInit /\ [][ToolNext]_vars

(***************************************************************************)
(* Vocabulary of the tool claims.                                          *)
(***************************************************************************)
ToolDone == run.at = "done"
\* generate's tool-schema completion returned a call.
ModelCalled == run.completion = "call"
ToolEvents == SelectSeq(run.events, IsTool)
IsToolSub(e, sub) == IsTool(e) /\ e.sub = sub

\* C26: when generate's tool-schema completion returns a call to a registered
\* tool, generate yields exactly one Tool.Call, one Tool.ETA, then one of
\* Tool.Result and Tool.Error, then one FinalAnswer, and nothing else; the tool
\* events carry one uuid.  This is so as well when the synthesis fails.
C26_CallEtaOutcomeAnswer ==
    (ToolDone /\ ModelCalled /\ Mapping(run.call.name) # None) =>
        /\ Len(run.events) = 4
        /\ IsToolSub(run.events[1], "call")
        /\ IsToolSub(run.events[2], "eta")
        /\ IsToolSub(run.events[3], "result") \/ IsToolSub(run.events[3], "error")
        /\ IsFinalAnswer(run.events[4])
        /\ \A i \in 1..3 : run.events[i].uuid = run.events[1].uuid

IssuedCall == IF ModelCalled THEN run.call ELSE run.endpointCall
\* What went wrong with it, in the order the code looks: the name, the
\* arguments, the invocation.
CallFailure ==
    IF Mapping(IssuedCall.name) = None THEN "mapping"
    ELSE IF IssuedCall.arguments # "" /\ JsonParse(IssuedCall.arguments) = None
    THEN "arguments"
    ELSE IF run.invocation = "throws" THEN "invocation"
    ELSE "none"
FailureText(failure) ==
    CASE failure = "mapping" -> UnknownFunction
      [] failure = "arguments" -> InvalidArgs
      [] failure = "invocation" -> McpError(ToolFailure)

\* C28: a tool call of the model whose name is not in the mapping, whose
\* arguments are not valid JSON, or whose invocation throws, ends the turn with
\* a FinalAnswer that describes that failure.
C28_FailureIsAnswered ==
    (ToolDone /\ IsCall(IssuedCall) /\ CallFailure # "none") =>
        /\ run.events # <<>>
        /\ IsFinalAnswer(run.events[Len(run.events)])
        /\ run.events[Len(run.events)].text = FailureText(CallFailure)

\* What generate yields for a streamed answer when no tool is configured: the
\* loop body on each chunk of the provider in turn.
RECURSIVE StreamedEvents(_, _, _, _)
StreamedEvents(g, generatedText, tokenId, chunks) ==
    IF chunks = <<>> THEN <<>>
    ELSE LET chunk == Head(chunks)
             r == GenerateOutput("none", g,
                                 ChatStreamOutput(generatedText, tokenId, chunk))
         IN  r.events \o StreamedEvents([reasoning |-> r.reasoning,
                                         reasoningBuffer |-> r.reasoningBuffer],
                                        generatedText \o chunk.content,
                                        tokenId + 1, Tail(chunks))
WithoutTools ==
    StreamedEvents([reasoning |-> FALSE, reasoningBuffer |-> <<>>], <<>>, 0, run.provider)
ProviderTokens ==
    SelectSeq([i \in 1..Len(run.provider) |-> run.provider[i].content],
              LAMBDA content : content # <<>>)

\* C29: with tools configured and a last message that is no inline command,
\* when generate's tool-schema completion returns no tool call, the turn yields the events of a turn without tools on the same
\* provider output: one Stream event for each token of the provider, and no
\* Tool event.
C29_NoCallIsPlainStream ==
    (ToolDone /\ run.mcp = "on" /\ run.completion = "content" /\ ~run.message.match) =>
        /\ run.events = WithoutTools
        /\ SelectSeq(run.events, IsStream)
             = [i \in 1..Len(ProviderTokens) |-> StreamEv(ProviderTokens[i])]
        /\ ToolEvents = <<>>

\* C30: with a server configured, when the last user message matches the
\* inline command pattern, no completion of the model is made in the turn:
\* neither generate's tool-schema completion, nor the endpoint's, nor the chat
\* completion, nor a synthesis.
C30_InlineBeforeModel ==
    (run.mcp # "off" /\ run.message.match) => run.modelCalls = <<>>

\* What is wrong with the inline command of the last user message.
InlineError ==
    IF run.message.server \notin Servers THEN "server"
    ELSE IF EndpointArgs(run.message.raw) = None THEN "arguments"
    ELSE "none"
InlineErrorText == IF InlineError = "server" THEN UnknownServer ELSE InvalidArgs

\* C31: with a server configured, an inline command that names an unknown
\* server or carries arguments that are not valid JSON makes generate yield one
\* FinalAnswer with the text of that error and nothing else: no Stream, no
\* error status, no other content event.
C31_InlineErrorOneAnswer ==
    (ToolDone /\ run.mcp # "off" /\ run.message.match /\ InlineError # "none") =>
        /\ Len(run.events) = 1
        /\ IsFinalAnswer(run.events[1])
        /\ run.events[1].text = InlineErrorText

(***************************************************************************)
(* Stop requests.  POST /stop-generating looks the conversation up for the *)
(* requester, then upserts the abort record of the conversation with the   *)
(* date it took; the database applies each command atomically, in the      *)
(* order it receives them.  The collection has a unique index on           *)
(* conversationId and a TTL index on updatedAt.  Up to MaxStops requests   *)
(* run concurrently while the clock advances up to MaxClock; a record      *)
(* expires ExpireAfter ticks of the clock after its updatedAt.             *)
(***************************************************************************)
MaxStops == 3
MaxClock == 2
ExpireAfter == 2

\* The conversations and who owns them; "u2" owns none.
Conversations == {"c1", "c2"}
Requesters == {"u1", "u2"}
Owner(conv) == "u1"

RecordsOf(records, conv) == {r \in records : r.conversationId = conv}

\* updateOne({conversationId}, {$set: {updatedAt}, $setOnInsert: {createdAt}},
\* {upsert: true}).
UpdateOne_Inserts(records, conv, date) ==
    records \cup {[conversationId |-> conv, updatedAt |-> date, createdAt |-> date,
                   id |-> Cardinality(records)]}
UpdateOne(records, conv, date) ==
    IF RecordsOf(records, conv) # {}
    THEN LET r == CHOOSE r \in RecordsOf(records, conv) : TRUE
         IN  (records \ {r}) \cup {[r EXCEPT !.updatedAt = date]}
    ELSE records \cup {[conversationId |-> conv, updatedAt |-> date, createdAt |-> date,
                        id |-> Cardinality(records)]}

\* findOne({conversationId}) on the collection: updatedAt of the record.
FindAbort(records, conv) ==
    IF RecordsOf(records, conv) = {} THEN NoAbort
    ELSE (CHOOSE r \in RecordsOf(records, conv) : TRUE).updatedAt

notAborts == <<abortTime, rtype, tree, run, hpc, cancelled, done, merged,
               handlerVars, mainVars, titleVars, kaVars>>

StopInit ==
    /\ TurnInit
    /\ aborts = NoAborts
    /\ rtype = "none"
    /\ tree = TreeOf(NewConversation)
    /\ run = NoRun

\* The request arrives: the conversation is looked up with the requester's
\* auth condition; 404 when it is not theirs.
StopFind ==
    /\ aborts.started < MaxStops
    /\ \E user \in Requesters, conv \in Conversations :
         IF Owner(conv) = user
         THEN aborts' = [aborts EXCEPT
                           !.started = @ + 1,
                           !.requests = Append(@, [user |-> user, conv |-> conv,
                                                   date |-> NoAbort, pc |-> "found"])]
         ELSE aborts' = [aborts EXCEPT !.started = @ + 1, !.denied = @ + 1]
    /\ UNCHANGED notAborts

\* The update is sent with new Date().
StopUpdate ==
    /\ \E i \in 1..Len(aborts.requests) :
         /\ aborts.requests[i].pc = "found"
         /\ aborts' = [aborts EXCEPT !.requests[i].pc = "sent",
                                     !.requests[i].date = aborts.clock]
    /\ UNCHANGED notAborts

\* The database applies the update, and the request is answered.
StopApply ==
    /\ \E i \in 1..Len(aborts.requests) :
         LET q == aborts.requests[i]
         IN  /\ q.pc = "sent"
             /\ aborts' = [aborts EXCEPT
                             !.requests = SubSeq(@, 1, i - 1) \o SubSeq(@, i + 1, Len(@)),
                             !.records = UpdateOne(@, q.conv, q.date),
                             !.last[q.conv] = q.date]
    /\ UNCHANGED notAborts

ClockTick ==
    /\ aborts.clock < MaxClock
    /\ aborts' = [aborts EXCEPT !.clock = @ + 1]
    /\ UNCHANGED notAborts

\* The TTL index removes a record ExpireAfter after its updatedAt.
Expire ==
    /\ \E r \in aborts.records :
         /\ aborts.clock - r.updatedAt >= ExpireAfter
         /\ aborts' = [aborts EXCEPT !.records = @ \ {r}]
    /\ UNCHANGED notAborts

\* A read of the record of a conversation.
ReadAbort ==
    /\ \E conv \in Conversations :
         aborts' = [aborts EXCEPT !.read = [conv |-> conv,
                                            result |-> FindAbort(aborts.records, conv)]]
    /\ UNCHANGED notAborts

StopNext ==
    \/ StopFind
    \/ StopUpdate
    \/ StopApply
    \/ ClockTick
    \/ Expire
    \/ ReadAbort

StopSpec == StopInit /\ [][StopNext]_vars

PreviousMessages == TurnConversation(tree.last.kind = "continue").messages

FromOf(messages) == [i \in 1..Len(messages) |-> messages[i].from]
IdsInOrder(messages) == [i \in 1..Len(messages) |-> messages[i].id]

\* The text of the last FinalAnswer delivered.
FinalAnswerText ==
    LET answers == SelectSeq(MergedEvents, IsFinalAnswer)
    IN  answers[Len(answers)].text

\* C33.  After a turn in which a FinalAnswer is emitted, the stored assistant
\* message holds the content it had at turn start followed by the FinalAnswer
\* text, and the stored conversation holds the previous messages, then the new
\* user message, then the new assistant message.
C33_FinalAnswerIsStored ==
    (TurnOver /\ FinalAnswerDelivered) =>
        /\ stored.messages.present
        /\ stored.messages.content = initialContent \o FinalAnswerText
        /\ tree.last.kind = "new" =>
             /\ IdsInOrder(SubSeq(tree.stored, 1, Len(PreviousMessages))) =
                    IdsInOrder(PreviousMessages)
             /\ FromOf(tree.stored) = FromOf(PreviousMessages) \o <<"user", "assistant">>

(***************************************************************************)
(* The title of one conversation: created or cloned from a share, then     *)
(* set by the Title events of its turns and by PATCH /:id.                 *)
(***************************************************************************)
MaxParts == 3
MaxTitleOps == 3

\* Input titles are made of these pieces.
TitlePieces == {<<"<">>, <<"<", "think", ">">>, <<"<", "/", "THINK", ">">>,
                <<"think", ">">>, <<" ">>, <<"t">>}

RECURSIVE TitlesOf(_)
TitlesOf(n) ==
    IF n = 0 THEN {<<>>}
    ELSE TitlesOf(n - 1) \cup {p \o q : p \in TitlePieces, q \in TitlesOf(n - 1)}

NoTitleRun == [title |-> <<>>, exists |-> FALSE, n |-> 0, op |-> "none", input |-> <<>>]

notRun == <<abortTime, rtype, tree, aborts, hpc, cancelled, done, merged,
            handlerVars, mainVars, titleVars, kaVars>>

TitleInit ==
    /\ TurnInit
    /\ aborts = NoAborts
    /\ rtype = "none"
    /\ mem = NoMessage
    /\ tree = TreeOf(NewConversation)
    /\ run = NoTitleRun

\* insertOne: title: (title || "New Chat").replace(/<\/?think>/gi, "").trim()
Created(title) == SanitizeTitle(IF title # <<>> THEN title ELSE NewChat)

Titled(op, input, title) ==
    [title |-> title, exists |-> TRUE, n |-> run.n + 1, op |-> op, input |-> input]

\* POST /conversations without fromShare.
CreateConversation ==
    /\ ~run.exists
    /\ run' = Titled("create", <<>>, Created(<<>>))
    /\ UNCHANGED notRun

\* POST /conversations with fromShare: the shared title is sanitised when it is
\* read and again when the conversation is inserted.
CloneConversation ==
    /\ ~run.exists
    /\ \E shared \in TitlesOf(MaxParts) :
         run' = Titled("clone", shared, Created(SanitizeTitle(shared)))
    /\ UNCHANGED notRun

\* update(), Title branch, during a turn of the conversation.
TitleEvent ==
    /\ run.exists /\ run.n < MaxTitleOps
    /\ \E title \in TitlesOf(MaxParts) :
         run' = Titled("title", title, SanitizeTitle(title))
    /\ UNCHANGED notRun

\* PATCH /:id with a title.
PatchTitle ==
    /\ run.exists /\ run.n < MaxTitleOps
    /\ \E title \in TitlesOf(MaxParts) :
         run' = Titled("patch", title, SanitizeTitle(title))
    /\ UNCHANGED notRun

TitleNext ==
    \/ CreateConversation
    \/ CloneConversation
    \/ TitleEvent
    \/ PatchTitle

TitleSpec == TitleInit /\ [][TitleNext]_vars

\* /<\/?think>/i matches somewhere in the title.
HasTag(title) == \E i \in 1..Len(title) : TagAt(SubSeq(title, i, Len(title))) > 0

\* C34.  After any sequence of creation, cloning from a share, Title events and
\* title PATCH requests, the stored title of the conversation contains no
\* <think> or </think> tag, in any case, whatever the input titles were.
C34_StoredTitleHasNoTag == run.exists => ~HasTag(run.title)

(***************************************************************************)
(* Abort records and the turn.                                             *)
(***************************************************************************)
\* The abort record of the conversation is not newer than the turn.
StaleAbort == abortTime # NoAbort /\ abortTime <= PromptedAt

\* C35.  An abort record whose timestamp is not newer than promptedAt never
\* stops the turn: as long as no newer timestamp is recorded the abort check
\* does not break the loop of generate, which goes on until the provider
\* stream ends or throws.
C35_StaleAbortNeverStops ==
    /\ [](StaleAbort => ~AbortObserved)
    /\ [][(mpc' = "aborted" /\ mpc # "aborted") => abortTime > PromptedAt]_vars

\* A turn that found a record as old as itself at every check, consumed the
\* provider stream to its end and closed with its answer.
C35_Witness ==
    /\ StaleAbort
    /\ hpc = "closed"
    /\ mpc = "ended"
    /\ FinalAnswerDelivered
    /\ Len(SelectSeq(MergedEvents, IsStream)) >= 1

(***************************************************************************)
(* The queue of the response stream.  start() reads the merged generators  *)
(* and hands every event to update(), which enqueues it on the controller; *)
(* the consumer of the response reads the queue at its own pace.           *)
(***************************************************************************)
MaxQueued == 4

\* new ReadableStream({start, cancel}): no queuing strategy, so the high-water
\* mark is one chunk.
HighWaterMark == 1

EventKinds == {"stream", "status", "keepAlive"}

\* The events the merged generators have for the turn: some events, then the
\* FinalAnswer.
RECURSIVE KindsUpTo(_)
KindsUpTo(n) ==
    IF n = 0 THEN {<<>>}
    ELSE KindsUpTo(n - 1) \cup {<<k>> \o s : k \in EventKinds, s \in KindsUpTo(n - 1)}

Turns(n) == {s \o <<"finalAnswer">> : s \in KindsUpTo(n)}

NoQueue == [pending |-> <<>>, queue |-> <<>>, read |-> 0, closed |-> FALSE]

QueueInit ==
    /\ TurnInit
    /\ aborts = NoAborts
    /\ rtype = "none"
    /\ mem = NoMessage
    /\ tree = TreeOf(NewConversation)
    /\ \E pending \in Turns(MaxQueued) : run = [NoQueue EXCEPT !.pending = pending]

\* controller.desiredSize
DesiredSize(queue) == HighWaterMark - Len(queue)

\* The chunks update() enqueues for an event: its line and, after a
\* FinalAnswer, the padding.
ChunksOf(kind) == IF kind = "finalAnswer" THEN <<kind, "padding">> ELSE <<kind>>

\* for await (const event of textGeneration(ctx)) await update(event): the next
\* event is taken as soon as update() has returned, whatever the queue holds.
QueueUpdate ==
    /\ run.pending # <<>>
    /\ run' = [run EXCEPT !.pending = Tail(run.pending),
                          !.queue = run.queue \o ChunksOf(Head(run.pending))]
    /\ UNCHANGED notRun

\* controller.close() after the last event.
QueueClose ==
    /\ run.pending = <<>> /\ ~run.closed
    /\ run' = [run EXCEPT !.closed = TRUE]
    /\ UNCHANGED notRun

\* The consumer of the response reads one chunk.
ConsumerRead ==
    /\ run.queue # <<>>
    /\ run' = [run EXCEPT !.queue = Tail(run.queue), !.read = run.read + 1]
    /\ UNCHANGED notRun

QueueNext ==
    \/ QueueUpdate
    \/ QueueClose
    \/ ConsumerRead

QueueSpec == QueueInit /\ [][QueueNext]_vars

\* C36.  The events produced and not yet read by the consumer are bounded
\* whatever the length of the turn: an event is enqueued only while the queue
\* is below its high-water mark, so the queue never holds more than the
\* high-water mark and the chunks of one event.
C36_QueueIsBounded ==
    /\ [](Len(run.queue) <= HighWaterMark + 1)
    /\ [][Len(run'.queue) > Len(run.queue) => DesiredSize(run.queue) > 0]_vars

(***************************************************************************)
(* The stream renderer of the client: a map of entries, one per stream id, *)
(* and the interval timer whose ticks move queued text into view.  Time is *)
(* counted in milliseconds since an entry was last active.                 *)
(***************************************************************************)
MaxCalls == 2

TICK_MS == 80
BASE_CPS == 120
MAX_CPS == 260
CLEANUP_DELAY_MS == 400
BoostFrom == 200

StreamIds == {"s1", "s2"}

\* The texts the callers pass: deltas (the empty one included), initial visible
\* texts and final visible texts (None when the argument is omitted).
LongDelta == <<"0", "1", "2", "3", "4", "5", "6", "7", "8", "9">>
Deltas == {<<>>, <<"a">>, LongDelta}
InitialVisibles == {<<>>, <<"v">>}
FinalVisibles == {None, Some(<<"f">>)}

NoEntry == [present |-> FALSE, visible |-> <<>>, incoming |-> <<>>, done |-> FALSE, age |-> 0]
Entry(visible, incoming, isDone, age) ==
    [present |-> TRUE, visible |-> visible, incoming |-> incoming, done |-> isDone, age |-> age]

\* The renderer: its entries, its timer handle (set or null), the intervals that
\* exist, and, for each id, what was primed and queued since the last prime
\* (sent), whether a prime has been followed by neither complete nor clear
\* (open), and the calls made so far.
NoRenderer ==
    [entries |-> [id \in StreamIds |-> NoEntry],
     timer |-> FALSE,
     intervals |-> 0,
     sent |-> [id \in StreamIds |-> <<>>],
     open |-> [id \in StreamIds |-> FALSE],
     calls |-> 0]

RenderInit ==
    /\ TurnInit
    /\ aborts = NoAborts
    /\ rtype = "none"
    /\ mem = NoMessage
    /\ tree = TreeOf(NewConversation)
    /\ run = NoRenderer

\* Variant: every call sets a new interval.
EnsureTimer_Always(r) == [r EXCEPT !.timer = TRUE, !.intervals = r.intervals + 1]

\* ensureTimer(), in a browser.
EnsureTimer(r) ==
    IF r.timer THEN r ELSE [r EXCEPT !.timer = TRUE, !.intervals = r.intervals + 1]

\* stopTimer()
StopTimer(r) ==
    IF r.timer THEN [r EXCEPT !.timer = FALSE, !.intervals = r.intervals - 1] ELSE r

\* Math.max(1, Math.floor((cps * TICK_MS) / 1000)) with
\* cps = Math.min(MAX_CPS, BASE_CPS + Math.max(0, backlog - 200) * 0.5),
\* computed in halves of a character per second.
Quota(backlog) ==
    LET backlogBoost == Max(0, backlog - BoostFrom)
        cps2 == Min(2 * MAX_CPS, 2 * BASE_CPS + backlogBoost)
    IN  Max(1, (cps2 * TICK_MS) \div 2000)

\* The time since the entry was last active, as the next tick sees it.
Elapsed(entry) ==
    IF entry.age > CLEANUP_DELAY_MS THEN entry.age ELSE entry.age + TICK_MS

\* Variant: the tick shows the slice and keeps it in the backlog.
Shown_KeepsBacklog(entry, sliceLength) ==
    Entry(entry.visible \o SubSeq(entry.incoming, 1, sliceLength), entry.incoming, entry.done, 0)

\* next.set(id, {visible: visible + slice, incoming: incoming.slice(sliceLength), ...})
Shown(entry, sliceLength) ==
    Entry(entry.visible \o SubSeq(entry.incoming, 1, sliceLength),
          SubSeq(entry.incoming, sliceLength + 1, Len(entry.incoming)), entry.done, 0)

\* What a tick makes of one entry.
Ticked(entry) ==
    IF ~entry.present THEN entry
    ELSE IF Len(entry.incoming) > 0
    THEN LET quota == Quota(Len(entry.incoming))
             sliceLength == Min(quota, Len(entry.incoming))
         IN  Shown(entry, sliceLength)
    ELSE IF entry.done /\ Elapsed(entry) > CLEANUP_DELAY_MS THEN NoEntry
    ELSE [entry EXCEPT !.age = Elapsed(entry)]

IsEmptyMap(entries) == \A id \in StreamIds : ~entries[id].present

\* tick(), fired by the interval.
Tick ==
    /\ run.timer
    /\ LET ticked == [id \in StreamIds |-> Ticked(run.entries[id])]
       IN  run' = IF IsEmptyMap(run.entries) \/ IsEmptyMap(ticked)
                  THEN StopTimer([run EXCEPT !.entries = ticked])
                  ELSE [run EXCEPT !.entries = ticked]
    /\ UNCHANGED notRun

Called(r) == [r EXCEPT !.calls = r.calls + 1]

\* primeStreamView(id, initialVisible)
PrimeStreamView ==
    /\ run.calls < MaxCalls
    /\ \E id \in StreamIds, initialVisible \in InitialVisibles :
         run' = EnsureTimer(Called([run EXCEPT
                    !.entries[id] = Entry(initialVisible, <<>>, FALSE, 0),
                    !.sent[id] = initialVisible,
                    !.open[id] = TRUE]))
    /\ UNCHANGED notRun

\* queueStreamView(id, delta)
QueueStreamView ==
    /\ run.calls < MaxCalls
    /\ \E id \in StreamIds, delta \in Deltas :
         run' = IF delta = <<>> THEN Called(run)
                ELSE EnsureTimer(Called([run EXCEPT
                        !.entries[id] = IF @.present
                                        THEN [@ EXCEPT !.incoming = @ \o delta]
                                        ELSE Entry(<<>>, delta, FALSE, 0),
                        !.sent[id] = IF run.entries[id].present THEN @ \o delta ELSE delta]))
    /\ UNCHANGED notRun

\* completeStreamView(id, finalVisible)
CompleteStreamView ==
    /\ run.calls < MaxCalls
    /\ \E id \in StreamIds, finalVisible \in FinalVisibles :
         run' = EnsureTimer(Called(
                    IF ~run.entries[id].present THEN run
                    ELSE [run EXCEPT
                            !.entries[id] = Entry(IF finalVisible = None THEN @.visible
                                                  ELSE finalVisible[1], <<>>, TRUE, 0),
                            !.open[id] = FALSE]))
    /\ UNCHANGED notRun

\* clearStreamView(id)
ClearStreamView ==
    /\ run.calls < MaxCalls
    /\ \E id \in StreamIds :
         run' = Called(IF ~run.entries[id].present THEN run
                       ELSE [run EXCEPT !.entries[id] = NoEntry, !.open[id] = FALSE])
    /\ UNCHANGED notRun

RenderNext ==
    \/ Tick
    \/ PrimeStreamView
    \/ QueueStreamView
    \/ CompleteStreamView
    \/ ClearStreamView

RenderSpec == RenderInit /\ [][RenderNext]_vars

\* The interval fires again and again while it exists.
RenderLive == RenderSpec /\ WF_vars(Tick)

(***************************************************************************)
(* Vocabulary of the renderer.                                             *)
(***************************************************************************)
TextOfEntry(entry) == entry.visible \o entry.incoming
Backlog(id) == run.entries[id].incoming

OneTimer == run.intervals <= 1 /\ (run.timer <=> run.intervals = 1)

\* The timer is running whenever some entry has a backlog.
TimerWhileBacklog == (\E id \in StreamIds : Backlog(id) # <<>>) => run.timer

\* The step takes characters out of the backlog of id by showing them.
ShownBy(id) ==
    /\ run'.entries[id].present
    /\ TextOfEntry(run'.entries[id]) = TextOfEntry(run.entries[id])

\* Every backlog is eventually empty, every entry that is done is eventually
\* removed or primed again, and the timer stops once the map is empty.
RenderProgress ==
    /\ \A id \in StreamIds : (Backlog(id) # <<>>) ~> (Backlog(id) = <<>>)
    /\ \A id \in StreamIds :
         (run.entries[id].present /\ run.entries[id].done) ~>
             ~(run.entries[id].present /\ run.entries[id].done)
    /\ IsEmptyMap(run.entries) ~> (~run.timer \/ ~IsEmptyMap(run.entries))

\* C38 as stated: under repeated ticks every queued character becomes visible
\* (it leaves the backlog only by being shown, and every backlog is emptied),
\* every completed entry with an empty backlog is removed, there is one
\* interval at most, the timer runs while some entry has a backlog and stops
\* once the map is empty.
C38_EveryCharacterShown ==
    /\ [](OneTimer /\ TimerWhileBacklog)
    /\ RenderProgress
    /\ [][\A id \in StreamIds :
            Len(run'.entries[id].incoming) < Len(Backlog(id)) => ShownBy(id)]_vars

\* C38.  The same, for the characters of an entry that is not primed again,
\* completed or cleared while they are queued: those calls empty the backlog
\* without showing it; the ticks show every other queued character.
C38_TimerAndProgress ==
    /\ [](OneTimer /\ TimerWhileBacklog)
    /\ RenderProgress
    /\ [][\A id \in StreamIds :
            Len(run'.entries[id].incoming) < Len(Backlog(id)) =>
                \/ ShownBy(id)
                \/ run'.calls # run.calls /\ ~run'.entries[id].present
                \/ run'.calls # run.calls /\ run'.entries[id].incoming = <<>>]_vars

\* A completed entry all of whose queued characters were shown by two ticks,
\* one tick before its removal, the one interval still running.
C38_Witness ==
    /\ run.entries["s1"].done
    /\ run.entries["s1"].visible = LongDelta
    /\ run.sent["s1"] = LongDelta
    /\ run.entries["s1"].age = CLEANUP_DELAY_MS
    /\ run.timer /\ run.intervals = 1

(***************************************************************************)
(* A streamed tool call: the provider sends the call in deltas (its id,    *)
(* its name and chunks of its argument text, each present or not), the     *)
(* chat stream adapter maps every delta and generate publishes the call.   *)
(***************************************************************************)
MaxDeltas == 3

CallId == "call1"
CallName == "fn"
CallIndex == "0"
DefaultName == "tool"

\* Chunks of the argument text {"k": ...}, written {k}; the empty chunk is the
\* arguments: "" of a first delta.
ArgChunks == {<<>>, <<"{", "k">>, <<"}">>}
CallParameters == <<"k">>

\* delta.tool_calls[0] of one provider chunk.
ToolCallDelta(id, name, arguments) ==
    [index |-> CallIndex, id |-> id, name |-> name, arguments |-> arguments]

ToolCallDeltas ==
    {ToolCallDelta(id, name, arguments) :
        id \in {None, Some(CallId)}, name \in {None, Some(CallName)},
        arguments \in {None} \cup {Some(chunk) : chunk \in ArgChunks}}

\* The adapter's entry of toolCallDeltas for a delta: the delta's own index, id,
\* name and argument chunk.
MappedDelta(c) ==
    [index |-> c.index, id |-> c.id, name |-> c.name, argumentsChunk |-> c.arguments]

\* const uuid = d.id ?? `${d.index}-${d.name ?? "tool"}`
UuidOf(d) ==
    IF d.id # None THEN <<d.id[1]>>
    ELSE <<d.index, IF d.name # None THEN d.name[1] ELSE DefaultName>>

UuidSpace == {<<CallId>>, <<CallIndex, CallName>>, <<CallIndex, DefaultName>>}

NoBuffer == [used |-> FALSE, name |-> None, args |-> <<>>,
             parsedPublished |-> FALSE, callPublished |-> FALSE]

\* JSON.parse(buf.args) when it gives an object; None when it throws.
ParseObject(args) == IF args = <<"{", "k", "}">> THEN Some(CallParameters) ELSE None

CallEv(uuid, name, parameters) ==
    ToolEv("call", uuid, [name |-> name, parameters |-> parameters])

\* The body of the loop over toolCallDeltas for one delta: the buffers after it
\* and the events it yields.
PublishDelta(buffers, d) ==
    LET uuid == UuidOf(d)
        old == buffers[uuid]
        named == IF d.name # None THEN d.name ELSE old.name
        args == IF d.argumentsChunk # None THEN old.args \o d.argumentsChunk[1] ELSE old.args
        call == ~old.callPublished /\ named # None
        parsed == IF old.parsedPublished THEN None ELSE ParseObject(args)
        buf == [used |-> TRUE, name |-> named, args |-> args,
                parsedPublished |-> old.parsedPublished \/ parsed # None,
                callPublished |-> old.callPublished \/ call]
    IN  [buffers |-> [buffers EXCEPT ![uuid] = buf],
         events |-> (IF call THEN <<CallEv(uuid, named[1], EmptyObject)>> ELSE <<>>)
                    \o (IF parsed # None
                        THEN <<CallEv(uuid, IF named # None THEN named[1] ELSE DefaultName,
                                      parsed[1])>>
                        ELSE <<>>)]

RECURSIVE DeltasUpTo(_)
DeltasUpTo(n) ==
    IF n = 0 THEN {<<>>}
    ELSE DeltasUpTo(n - 1) \cup {<<c>> \o s : c \in ToolCallDeltas, s \in DeltasUpTo(n - 1)}

NoCallRun == [chunks |-> <<>>, pos |-> 0, events |-> <<>>, over |-> FALSE,
              buffers |-> [u \in UuidSpace |-> NoBuffer]]

CallInit ==
    /\ TurnInit
    /\ aborts = NoAborts
    /\ rtype = "none"
    /\ mem = NoMessage
    /\ tree = TreeOf(NewConversation)
    /\ \E chunks \in DeltasUpTo(MaxDeltas) : run = [NoCallRun EXCEPT !.chunks = chunks]

\* One provider chunk with a tool-call delta through the adapter and generate.
CallOutput ==
    /\ ~run.over
    /\ run.pos < Len(run.chunks)
    /\ LET r == PublishDelta(run.buffers, MappedDelta(run.chunks[run.pos + 1]))
       IN  run' = [run EXCEPT !.pos = @ + 1, !.events = @ \o r.events,
                              !.buffers = r.buffers]
    /\ UNCHANGED notRun

\* The provider stream ends.
CallReturn ==
    /\ ~run.over
    /\ run.pos = Len(run.chunks)
    /\ run' = [run EXCEPT !.over = TRUE]
    /\ UNCHANGED notRun

CallNext ==
    \/ CallOutput
    \/ CallReturn

CallSpec == CallInit /\ [][CallNext]_vars

\* The argument chunks the provider has sent so far, in order.
RECURSIVE SentArguments(_)
SentArguments(n) ==
    IF n = 0 THEN <<>>
    ELSE SentArguments(n - 1)
         \o (IF run.chunks[n].arguments # None THEN run.chunks[n].arguments[1] ELSE <<>>)

UsedUuids == {u \in UuidSpace : run.buffers[u].used}
CallsOf(u) == SelectSeq(run.events, LAMBDA e : e.uuid = u)
NameSent == \E i \in 1..run.pos : run.chunks[i].name # None

\* C39.  The argument chunks of a streamed call accumulate in one buffer under
\* one uuid, and for that uuid generate yields at most one Tool.Call with empty
\* parameters, then at most one Tool.Call with the parsed parameters, both with
\* the name the provider gave the call, however id, name and argument chunks
\* are split across the deltas.
C39_OneBufferPerCall ==
    /\ Cardinality(UsedUuids) <= 1
    /\ \A u \in UsedUuids : run.buffers[u].args = SentArguments(run.pos)
    /\ \A u \in UuidSpace :
         LET calls == CallsOf(u)
         IN  /\ Len(calls) <= 2
             /\ Len(calls) = 2 => calls[1].text.parameters = EmptyObject
             /\ Len(calls) = 2 => calls[2].text.parameters # EmptyObject
             /\ NameSent => \A i \in 1..Len(calls) : calls[i].text.name = CallName

(***************************************************************************)
(* openAIChatToTextGenerationStream on chunks of either role: assistant    *)
(* deltas and tool results streamed as role "tool" with the header line    *)
(* Tool[name] id.  A chunk is [role, content, finish]; the symbol H stands *)
(* for a well-formed header text.                                          *)
(***************************************************************************)
MaxAdapterChunks == 3

ToolHeader == <<"H">>
HeaderName == "n"
HeaderId == "i"
NewLine == <<"\n">>

RoleChunk(role, content, finish) == [role |-> role, content |-> content, finish |-> finish]

AdapterChunks ==
    {RoleChunk("assistant", content, finish) :
        content \in {<<>>, <<"a">>, <<"b">>}, finish \in {"none", "stop", "length"}}
    \cup
    {RoleChunk("tool", content, finish) :
        content \in {<<"H">>, <<"H", "\n", "x">>, <<"\n">>, <<"x">>}, finish \in {"none", "stop"}}

RECURSIVE ChunksUpTo(_)
ChunksUpTo(n) ==
    IF n = 0 THEN {<<>>}
    ELSE ChunksUpTo(n - 1) \cup {<<c>> \o s : c \in AdapterChunks, s \in ChunksUpTo(n - 1)}

\* The generator's locals before the loop.
NoAdapter == [generatedText |-> <<>>, tokenId |-> 0, pendingToolHeader |-> None,
              currentToolName |-> None, currentToolId |-> None]

\* /^\s*Tool\[([^\]]+)\]\s+(\S+)\s*$/.exec(header)
HeaderMatches(header) == Trim(header) = ToolHeader

\* toolResultDelta and the locals after a chunk of role tool.
ToolResult(a, chunk) ==
    IF a.pendingToolHeader # None \/ a.currentToolName = None
    THEN LET pending == (IF a.pendingToolHeader = None THEN <<>> ELSE a.pendingToolHeader[1])
                        \o chunk.content
             newlineIndex == IndexOf(pending, NewLine)
             header == Slice(pending, 0, newlineIndex)
             matched == HeaderMatches(header)
             name == IF matched THEN Some(HeaderName) ELSE a.currentToolName
             id == IF matched THEN Some(HeaderId) ELSE a.currentToolId
         IN  IF newlineIndex # -1
             THEN [a |-> [a EXCEPT !.pendingToolHeader = None, !.currentToolName = name,
                                   !.currentToolId = id],
                   delta |-> [name |-> name, id |-> id,
                              contentChunk |-> SliceFrom(pending, newlineIndex + 1)]]
             ELSE [a |-> [a EXCEPT !.pendingToolHeader = Some(pending)],
                   delta |-> [name |-> None, id |-> None, contentChunk |-> <<>>]]
    ELSE [a |-> a,
          delta |-> [name |-> a.currentToolName, id |-> a.currentToolId,
                     contentChunk |-> chunk.content]]

\* Variant: a chunk of role tool goes on to the assistant content branch.
IsToolRole_Never(chunk) == FALSE

\* roleDelta === "tool"
IsToolRole(chunk) == chunk.role = "tool"

\* One iteration of the loop: the output yielded for the chunk and the locals
\* after it.
AdapterOutput(a, chunk) ==
    IF IsToolRole(chunk)
    THEN LET r == ToolResult(a, chunk)
         IN  [a |-> [r.a EXCEPT !.tokenId = a.tokenId + 1],
              out |-> [token |-> [id |-> a.tokenId, text |-> <<>>,
                                  special |-> chunk.finish \in {"stop", "length"}],
                       generated_text |-> None,
                       toolResultDelta |-> Some(r.delta)]]
    ELSE LET out == ChatStreamOutput(a.generatedText, a.tokenId, chunk)
         IN  [a |-> [a EXCEPT !.generatedText = a.generatedText \o chunk.content,
                              !.tokenId = a.tokenId + 1],
              out |-> [token |-> out.token, generated_text |-> out.generated_text,
                       toolResultDelta |-> None]]

AdapterInit ==
    /\ TurnInit
    /\ aborts = NoAborts
    /\ rtype = "none"
    /\ mem = NoMessage
    /\ tree = TreeOf(NewConversation)
    /\ \E chunks \in ChunksUpTo(MaxAdapterChunks) :
         run = [chunks |-> chunks, pos |-> 0, outputs |-> <<>>, over |-> FALSE,
                locals |-> NoAdapter]

\* The provider sends a chunk and the adapter yields its output.
AdapterYield ==
    /\ ~run.over
    /\ run.pos < Len(run.chunks)
    /\ LET r == AdapterOutput(run.locals, run.chunks[run.pos + 1])
       IN  run' = [run EXCEPT !.pos = @ + 1, !.outputs = Append(@, r.out), !.locals = r.a]
    /\ UNCHANGED notRun

\* The provider stream ends and the generator returns.
AdapterReturn ==
    /\ ~run.over
    /\ run.pos = Len(run.chunks)
    /\ run' = [run EXCEPT !.over = TRUE]
    /\ UNCHANGED notRun

AdapterNext ==
    \/ AdapterYield
    \/ AdapterReturn

AdapterSpec == AdapterInit /\ [][AdapterNext]_vars

\* The assistant content of the first n chunks.
RECURSIVE AssistantContent(_)
AssistantContent(n) ==
    IF n = 0 THEN <<>>
    ELSE AssistantContent(n - 1)
         \o (IF run.chunks[n].role = "tool" THEN <<>> ELSE run.chunks[n].content)

\* C40.  The adapter yields one output per provider chunk, with token ids 0, 1,
\* 2, ... in order; generated_text is set only on the output of a chunk whose
\* finish reason is stop or length, and is then the concatenation of the
\* assistant content received so far; a chunk of role tool contributes neither
\* to a token text nor to generated_text.
C40_OneOutputPerChunk ==
    /\ Len(run.outputs) = run.pos
    /\ \A i \in 1..Len(run.outputs) :
         LET out == run.outputs[i]
             chunk == run.chunks[i]
         IN  /\ out.token.id = i - 1
             /\ out.generated_text # None =>
                  /\ chunk.finish \in {"stop", "length"}
                  /\ out.generated_text = Some(AssistantContent(i))
             /\ chunk.role = "tool" =>
                  /\ out.token.text = <<>>
                  /\ out.generated_text = None
             /\ chunk.role # "tool" => out.token.text = chunk.content

\* An assistant token, a tool result with its header, and the last assistant
\* token with the finish reason: the completed text is the two tokens.
C40_Witness ==
    /\ run.over
    /\ Len(run.outputs) = MaxAdapterChunks
    /\ run.chunks[2].role = "tool"
    /\ run.outputs[2].toolResultDelta = Some([name |-> Some(HeaderName), id |-> Some(HeaderId),
                                               contentChunk |-> <<"x">>])
    /\ run.outputs[3].generated_text = Some(<<"a", "b">>)
    /\ run.outputs[3].token.id = 2
====
